---------------------------- MODULE Spec2Model ----------------------------
(***************************************************************************)
(* Usameter: the event-ingestion and enforcement pipeline                  *)
(* (POST /api/v1/events, tRPC usage.recordEvent), the process-wide cache   *)
(* circuit breaker, the daily snapshot job and the invoice generator.      *)
(*                                                                         *)
(* Every await of a handler is one step of the request that runs it, so    *)
(* that requests interleave exactly where the event loop lets them.        *)
(* Quantities are integers (the unit is the smallest decimal step), times  *)
(* are milliseconds since an epoch, 0 is the null id and NoTime the null   *)
(* date.                                                                   *)
(***************************************************************************)
EXTENDS Integers, Sequences, FiniteSets, TLC

(* ------------------------------ bounds -------------------------------- *)

\* request slots of the ingest API
MaxReqs == 3
\* how many ingest requests may be in flight at once in the concurrent runs
MaxInFlight == 2
\* largest quantity a submitted event carries (0 is the schema-invalid one)
MaxQty == 2
\* invoice builds that may be started
MaxBuilds == 2
\* calls of the tRPC recordEvent mutation
MaxTrpc == 1
\* changes of cache availability (outages and recoveries)
MaxFlips == 2

(* ------------------------- program constants -------------------------- *)

CIRCUIT_BREAKER_THRESHOLD == 5
MsPerSecond == 1000
SecondsPerMinute == 60
MinutesPerHour == 60
HoursPerDay == 24

MsPerMinute == MsPerSecond * SecondsPerMinute
MsPerHour == MsPerMinute * MinutesPerHour
MsPerDay == MsPerHour * HoursPerDay

(* ------------------------------ domains ------------------------------- *)

Org == "o1"
Tenants == {"t1"}
EventTypes == {"api", "sms"}
Groups == Tenants \X EventTypes
NoKey == "<undefined>"
Keys == {"k1"}
NoTime == -1
Reqs == 1..MaxReqs
Builds == 1..MaxBuilds

VARIABLES
    now,            \* the server clock (ms)
    redisUp,        \* whether the cache answers
    flips,          \* availability changes so far
    circuitBreakerOpen,
    circuitBreakerFailures,
    breakerTimers,  \* pending setTimeout callbacks of the breaker
    idemCache,      \* idempotency:{org}:{key} -> event id (0: no entry)
    quotaCounter,   \* quota:tenant:..:period counter of the current period
    rolling,        \* rolling usage counters per (tenant, eventType)
    rlCount,        \* rate-limit buckets, window -> bucket index -> count
    inflightSets,   \* setIdempotencyKey calls nobody awaits
    inflightRoll,   \* rolling-counter updates nobody awaits
    tenantStatus,   \* tenants table: "NONE" when the row does not exist
    quotaLimit,     \* quota_limits table, per group
    rateLimit,      \* rate_limits row of the organization
    pricingTiers,   \* pricing_tiers rows of the organization, by tierLevel
    events,         \* usage_events table
    nextEventId,
    snapshots,      \* usage_snapshots table
    invoices,       \* invoices table with the line items
    nextInvoiceId,
    req,            \* ingest requests
    build,          \* invoice builds
    trpcCalls       \* recordEvent calls made

cacheVars == <<redisUp, flips, circuitBreakerOpen, circuitBreakerFailures, breakerTimers>>
redisData == <<idemCache, quotaCounter, rolling, rlCount>>
asyncVars == <<inflightSets, inflightRoll>>
configVars == <<tenantStatus, quotaLimit, rateLimit, pricingTiers>>
storeVars == <<events, nextEventId>>
billVars == <<snapshots, invoices, nextInvoiceId, build>>
vars == <<now, cacheVars, redisData, asyncVars, configVars, storeVars, billVars, req, trpcCalls>>

(* ------------------------------ helpers ------------------------------- *)

RECURSIVE SumOver(_, _)
\* sum of f[x] over the finite set S
SumOver(S, f) ==
    IF S = {} THEN 0
    ELSE LET x == CHOOSE y \in S : TRUE IN f[x] + SumOver(S \ {x}, f)

Max(a, b) == IF a >= b THEN a ELSE b

\* Math.ceil(a / b) for a >= 0, b > 0
CeilDiv(a, b) == (a + b - 1) \div b

\* JavaScript truthiness of an optional string: undefined and "" are falsy
Truthy(k) == k # NoKey /\ k # ""

(* ------------------- circuit breaker (withRedisFallback) ---------------- *)

Breaker ==
    [open |-> circuitBreakerOpen, failures |-> circuitBreakerFailures,
     timers |-> breakerTimers]

\* the try branch completed: counters are reset
BreakerOnSuccess(b) == [b EXCEPT !.failures = 0, !.open = FALSE]

\* the catch branch: one more failure, the breaker opens at the threshold and
\* a reset timer is scheduled
BreakerOnFailure(b) ==
    IF b.failures + 1 >= CIRCUIT_BREAKER_THRESHOLD
    THEN [open |-> TRUE, failures |-> b.failures + 1, timers |-> b.timers + 1]
    ELSE [b EXCEPT !.failures = b.failures + 1]

RECURSIVE BreakerOnFailures(_, _)
\* n operations started together that all fail
BreakerOnFailures(b, n) ==
    IF n = 0 THEN b ELSE BreakerOnFailures(BreakerOnFailure(b), n - 1)

SetBreaker(b) ==
    /\ circuitBreakerOpen' = b.open
    /\ circuitBreakerFailures' = b.failures
    /\ breakerTimers' = b.timers
    /\ UNCHANGED <<redisUp, flips>>

\* the cache becomes unreachable
RedisFail ==
    /\ redisUp /\ flips < MaxFlips
    /\ redisUp' = FALSE /\ flips' = flips + 1
    /\ UNCHANGED <<circuitBreakerOpen, circuitBreakerFailures, breakerTimers>>
    /\ UNCHANGED <<now, redisData, asyncVars, configVars, storeVars, billVars, req, trpcCalls>>

\* the cache is reachable again
RedisRecover ==
    /\ ~redisUp /\ flips < MaxFlips
    /\ redisUp' = TRUE /\ flips' = flips + 1
    /\ UNCHANGED <<circuitBreakerOpen, circuitBreakerFailures, breakerTimers>>
    /\ UNCHANGED <<now, redisData, asyncVars, configVars, storeVars, billVars, req, trpcCalls>>

\* the setTimeout callback scheduled when the breaker opened
BreakerTimerFires ==
    /\ breakerTimers > 0
    /\ circuitBreakerOpen' = FALSE
    /\ circuitBreakerFailures' = 0
    /\ breakerTimers' = breakerTimers - 1
    /\ UNCHANGED <<redisUp, flips>>
    /\ UNCHANGED <<now, redisData, asyncVars, configVars, storeVars, billVars, req, trpcCalls>>

(* --------------------------- ingest requests --------------------------- *)

NoRateResult ==
    [via |-> "none", allowed |-> TRUE, remaining |-> 0, limit |-> 0,
     resetAt |-> NoTime, retryAfter |-> 0]

\* rlAt is the instant checkRateLimit started at; rlEvalAt and rlIncrAt (the
\* instants its counts came back and its increments were made) and reserved
\* (what the request added to each quota counter) record history only; warn
\* is the warning flag of the quota result of each group, tmap the map
\* findOrCreateTenants returns ("": no entry) and miss its missingIds
IdleReq ==
    [pc |-> "idle", batch |-> FALSE, evs |-> <<>>, dup |-> [k \in Keys |-> 0],
     tmap |-> [t \in Tenants |-> ""], miss |-> {},
     q |-> [g \in Groups |-> "na"], warn |-> [g \in Groups |-> FALSE],
     pend |-> {}, res |-> <<>>,
     status |-> 0, code |-> "", rl |-> NoRateResult, rlAt |-> NoTime,
     rlEvalAt |-> NoTime, rlIncrAt |-> NoTime, reserved |-> [g \in Groups |-> 0]]

InFlight == {r \in Reqs : req[r].pc \notin {"idle", "done"}}

\* a caller sends payload p; slots are taken in order
Submit(r, P, limit) ==
    /\ req[r].pc = "idle"
    /\ \A s \in Reqs : s < r => req[s].pc # "idle"
    /\ Cardinality(InFlight) < limit
    /\ \E p \in P :
         req' = [req EXCEPT ![r] = [IdleReq EXCEPT !.pc = "rate", !.batch = p.batch,
                                                   !.evs = p.evs]]
    /\ UNCHANGED <<now, cacheVars, redisData, asyncVars, configVars, storeVars, billVars, trpcCalls>>

(* ---------------------- Admit: checkRateLimit -------------------------- *)

\* Infinity of the RateLimitResult; Less is < on numbers that may be Infinity
Infinity == 0 - 1
Less(a, b) == a # Infinity /\ (b = Infinity \/ a < b)

Windows == <<"second", "minute", "hour">>

WindowMs(w) ==
    CASE w = "second" -> MsPerSecond
      [] w = "minute" -> MsPerMinute
      [] OTHER -> MsPerHour

\* the bucket of getRateLimitKey: the ISO string of the instant cut at the window
BucketOf(w, t) == t \div WindowMs(w)

\* start of the next window (setSeconds/setMinutes/setHours(+1, 0...)); the
\* server's time zone is a whole number of hours from UTC
NextWindowStart(w, t) == (BucketOf(w, t) + 1) * WindowMs(w)

CountAt(w, t) ==
    IF <<w, BucketOf(w, t)>> \in DOMAIN rlCount THEN rlCount[<<w, BucketOf(w, t)>>] ELSE 0

LimitOf(row, w) ==
    CASE w = "second" -> row.perSecond
      [] w = "minute" -> row.perMinute
      [] OTHER -> row.perHour

\* the configured checks, in the order second, minute, hour; a limit of 0 or
\* null is falsy and configures nothing
ChecksOf(row) == SelectSeq(Windows, LAMBDA w : LimitOf(row, w) > 0)

RECURSIVE RateWalkOffByOne(_, _, _, _, _, _)
\* the loop with the comparison currentCount > limit: one request too many passes
RateWalkOffByOne(row, checks, i, best, t0, t1) ==
    IF i > Len(checks) THEN best
    ELSE LET w == checks[i]
             limit == LimitOf(row, w)
             currentCount == CountAt(w, t0)
             remaining == Max(0, limit - currentCount - 1)
         IN IF currentCount > limit
            THEN [via |-> "redis", allowed |-> FALSE, remaining |-> 0, limit |-> limit,
                  resetAt |-> NextWindowStart(w, t1),
                  retryAfter |-> CeilDiv(NextWindowStart(w, t1) - t0, MsPerSecond)]
            ELSE RateWalkOffByOne(row, checks, i + 1,
                          IF Less(remaining, best.remaining)
                          THEN [via |-> "redis", allowed |-> TRUE, remaining |-> remaining,
                                limit |-> limit, resetAt |-> NextWindowStart(w, t1),
                                retryAfter |-> 0]
                          ELSE best, t0, t1)

RECURSIVE RateWalk(_, _, _, _, _, _)
\* the loop over the checks (lines 386-437): the first exhausted bucket rejects,
\* otherwise the smallest remaining is kept. t0 is the instant the call started
\* (now, and the bucket of every key), t1 the instant the counts came back
\* (every resetAt is computed from a new Date())
RateWalk(row, checks, i, best, t0, t1) ==
    IF i > Len(checks) THEN best
    ELSE LET w == checks[i]
             limit == LimitOf(row, w)
             currentCount == CountAt(w, t0)
             remaining == Max(0, limit - currentCount - 1)
         IN IF currentCount >= limit
            THEN [via |-> "redis", allowed |-> FALSE, remaining |-> 0, limit |-> limit,
                  resetAt |-> NextWindowStart(w, t1),
                  retryAfter |-> CeilDiv(NextWindowStart(w, t1) - t0, MsPerSecond)]
            ELSE RateWalk(row, checks, i + 1,
                          IF Less(remaining, best.remaining)
                          THEN [via |-> "redis", allowed |-> TRUE, remaining |-> remaining,
                                limit |-> limit, resetAt |-> NextWindowStart(w, t1),
                                retryAfter |-> 0]
                          ELSE best, t0, t1)

Unlimited(via, t) ==
    [via |-> via, allowed |-> TRUE, remaining |-> Infinity, limit |-> Infinity,
     resetAt |-> t, retryAfter |-> 0]

\* the read phase of checkRateLimit, started at t0 and answered at t1
checkRateLimit(row, t0, t1) == RateWalk(row, ChecksOf(row), 1, Unlimited("redis", t0), t0, t1)

\* the increment phase: INCR of every configured bucket at instant t
IncrBuckets(row, t) ==
    LET ks == {<<ChecksOf(row)[i], BucketOf(ChecksOf(row)[i], t)>> : i \in 1..Len(ChecksOf(row))}
    IN [k \in DOMAIN rlCount \cup ks |->
          (IF k \in DOMAIN rlCount THEN rlCount[k] ELSE 0) + (IF k \in ks THEN 1 ELSE 0)]

\* a fallback that fails closed
RateFallbackClosed(t) == [Unlimited("fallback", t) EXCEPT !.allowed = FALSE]

\* the dbFallback of the Admit call (POST, line 297): fail open
RateFallback(t) == Unlimited("fallback", t)

\* POST, lines 284-298: the rateLimit row is looked up; with a row,
\* withRedisFallback answers at once when the breaker is open, and otherwise
\* checkRateLimit takes its instant and sends the pipelined GETs
RateLookup(r) ==
    /\ req[r].pc = "rate"
    /\ req' = IF ~rateLimit.exists
              THEN [req EXCEPT ![r].pc = "parse"]
              ELSE IF ~circuitBreakerOpen
              THEN [req EXCEPT ![r].pc = "rate_read", ![r].rlAt = now]
              ELSE IF RateFallback(now).allowed
              THEN [req EXCEPT ![r].pc = "parse", ![r].rl = RateFallback(now), ![r].rlAt = now]
              ELSE [req EXCEPT ![r].pc = "done", ![r].rl = RateFallback(now), ![r].rlAt = now,
                               ![r].status = 429, ![r].code = "RATE_LIMIT_EXCEEDED"]
    /\ UNCHANGED <<now, cacheVars, redisData, asyncVars, configVars, storeVars, billVars, trpcCalls>>

\* a rejection that counts the rejected request in every configured bucket
BucketsOnRejectCounted(row, t) == IncrBuckets(row, t)

\* the return of a rejection (lines 402-408) comes before the increment
\* phase: the buckets stay as they are
BucketsOnReject(row, t) == rlCount

\* the counts come back (or the round trip fails): lines 376-437, and the 429
\* of POST, lines 300-322
RateRead(r) ==
    /\ req[r].pc = "rate_read"
    /\ LET result == IF redisUp THEN checkRateLimit(rateLimit, req[r].rlAt, now)
                     ELSE RateFallback(now)
       IN IF ~result.allowed
          THEN /\ req' = [req EXCEPT ![r].pc = "done", ![r].rl = result, ![r].rlEvalAt = now,
                                     ![r].status = 429, ![r].code = "RATE_LIMIT_EXCEEDED"]
               /\ SetBreaker(IF redisUp THEN BreakerOnSuccess(Breaker)
                             ELSE BreakerOnFailure(Breaker))
               /\ rlCount' = IF redisUp THEN BucketsOnReject(rateLimit, req[r].rlAt)
                             ELSE rlCount
          ELSE IF redisUp
          THEN /\ req' = [req EXCEPT ![r].pc = "rate_incr", ![r].rl = result, ![r].rlEvalAt = now]
               /\ UNCHANGED <<cacheVars, rlCount>>
          ELSE /\ req' = [req EXCEPT ![r].pc = "parse", ![r].rl = result, ![r].rlEvalAt = now]
               /\ SetBreaker(BreakerOnFailure(Breaker))
               /\ UNCHANGED rlCount
    /\ UNCHANGED <<now, idemCache, quotaCounter, rolling, asyncVars, configVars, storeVars,
                   billVars, trpcCalls>>

\* the second round trip of checkRateLimit: the pipelined INCR + EXPIRE
RateIncr(r) ==
    /\ req[r].pc = "rate_incr"
    /\ IF ~redisUp
       THEN /\ req' = IF RateFallback(now).allowed
                      THEN [req EXCEPT ![r].pc = "parse", ![r].rl = RateFallback(now)]
                      ELSE [req EXCEPT ![r].pc = "done", ![r].rl = RateFallback(now),
                                       ![r].status = 429, ![r].code = "RATE_LIMIT_EXCEEDED"]
            /\ SetBreaker(BreakerOnFailure(Breaker))
            /\ UNCHANGED rlCount
       ELSE /\ req' = [req EXCEPT ![r].pc = "parse", ![r].rlIncrAt = now]
            /\ rlCount' = IncrBuckets(rateLimit, now)
            /\ SetBreaker(BreakerOnSuccess(Breaker))
    /\ UNCHANGED <<now, idemCache, quotaCounter, rolling, asyncVars, configVars, storeVars,
                   billVars, trpcCalls>>

\* instants the clock of the rate-limit runs passes through, as offsets from the
\* start: the end of the first second, the next second, minute and hour
ClockOffsets == {MsPerSecond - 1, MsPerSecond, MsPerMinute, MsPerHour}

\* time passes
Tick ==
    /\ \E d \in ClockOffsets : now < 2 * MsPerDay + d /\ now' = 2 * MsPerDay + d
    /\ UNCHANGED <<cacheVars, redisData, asyncVars, configVars, storeVars, billVars, req,
                   trpcCalls>>

(* ------------------- parse, Resolve and Classify ----------------------- *)

MaxBatchSize == 1000

\* a schema that validates the first event of the body alone
SchemaValidFirstOnly(batch, evs) ==
    /\ Len(evs) >= 1
    /\ batch => Len(evs) <= MaxBatchSize
    /\ evs[1].qty > 0

\* eventSchema / batchEventSchema (safeParse)
SchemaValid(batch, evs) ==
    /\ Len(evs) >= 1
    /\ batch => Len(evs) <= MaxBatchSize
    /\ \A i \in 1..Len(evs) : evs[i].qty > 0

\* POST, lines 325-350
Parse(r) ==
    /\ req[r].pc = "parse"
    /\ req' = IF SchemaValid(req[r].batch, req[r].evs)
              THEN [req EXCEPT ![r].pc = "tenants"]
              ELSE [req EXCEPT ![r].pc = "done", ![r].status = 400]
    /\ UNCHANGED <<now, cacheVars, redisData, asyncVars, configVars, storeVars, billVars, trpcCalls>>

TenantsOf(evs) == {evs[i].tenant : i \in 1..Len(evs)}

\* findOrCreateTenants: the batched lookup; the internal id of a tenant is
\* written like its external id
TenantsFind(r) ==
    /\ req[r].pc = "tenants"
    /\ LET missingIds == {t \in TenantsOf(req[r].evs) : tenantStatus[t] = "NONE"}
           tenantMap == [t \in Tenants |->
                           IF t \in TenantsOf(req[r].evs) \ missingIds THEN t ELSE ""]
       IN req' = [req EXCEPT ![r].pc = IF missingIds # {} THEN "tenants_upsert"
                                       ELSE "idem_cache",
                             ![r].tmap = tenantMap, ![r].miss = missingIds]
    /\ UNCHANGED <<now, cacheVars, redisData, asyncVars, configVars, storeVars, billVars, trpcCalls>>

\* a plain create: the unique index tenants_organizationId_externalId_key
\* refuses a row that exists
CreateAccepted(t) == tenantStatus[t] = "NONE"

\* tenant.upsert on organizationId_externalId with update: {}: a row that
\* exists is returned as it is, a missing one is created
UpsertAccepted(t) == TRUE

\* findOrCreateTenants: the transaction of upserts (update: {} leaves an
\* existing row alone); a statement that is refused rolls it back and the
\* request ends with 500
TenantsUpsert(r) ==
    /\ req[r].pc = "tenants_upsert"
    /\ IF \A t \in req[r].miss : UpsertAccepted(t)
       THEN /\ tenantStatus' = [t \in Tenants |->
                                  IF t \in TenantsOf(req[r].evs) /\ tenantStatus[t] = "NONE"
                                  THEN "ACTIVE" ELSE tenantStatus[t]]
            /\ req' = [req EXCEPT ![r].pc = "idem_cache",
                                  ![r].tmap = [t \in Tenants |->
                                                 IF t \in req[r].miss THEN t ELSE @[t]]]
       ELSE /\ req' = [req EXCEPT ![r].pc = "done", ![r].status = 500]
            /\ UNCHANGED tenantStatus
    /\ UNCHANGED <<now, cacheVars, redisData, asyncVars, quotaLimit, rateLimit, pricingTiers,
                   storeVars, billVars, trpcCalls>>

KeyedIdx(evs) == {i \in 1..Len(evs) : Truthy(evs[i].key)}

\* the events that are not classified as duplicates
FreshIdx(evs, dup) == {i \in 1..Len(evs) : ~(Truthy(evs[i].key) /\ dup[evs[i].key] # 0)}

GroupOf(e) == <<e.tenant, e.type>>

\* a check of each group on the quantity of its first event alone
GroupQtyFirst(evs, idx, g) ==
    LET I == {i \in idx : GroupOf(evs[i]) = g}
    IN IF I = {} THEN 0 ELSE evs[CHOOSE i \in I : \A j \in I : i <= j].qty

\* checkQuotas, lines 155-171: quantities summed per tenant + eventType
GroupQty(evs, idx, g) ==
    SumOver({i \in idx : GroupOf(evs[i]) = g}, [i \in 1..Len(evs) |-> evs[i].qty])

\* the quota checks a request has to make once its duplicates are known
QuotaTodo(evs, dup) ==
    [g \in Groups |->
       IF \E i \in FreshIdx(evs, dup) : GroupOf(evs[i]) = g THEN "todo" ELSE "na"]

\* checkIdempotency, lines 105-119: the cache lookups of all keyed events,
\* started together, each inside its own withRedisFallback
IdemCache(r) ==
    /\ req[r].pc = "idem_cache"
    /\ LET evs == req[r].evs
           n == Cardinality(KeyedIdx(evs))
           usable == ~circuitBreakerOpen /\ redisUp
           dup == [k \in Keys |->
                     IF usable /\ (\E i \in KeyedIdx(evs) : evs[i].key = k)
                     THEN idemCache[k] ELSE 0]
           uncached == {evs[i].key : i \in KeyedIdx(evs)} \ {k \in Keys : dup[k] # 0}
       IN /\ IF n = 0 \/ circuitBreakerOpen THEN UNCHANGED cacheVars
             ELSE IF redisUp THEN SetBreaker(BreakerOnSuccess(Breaker))
             ELSE SetBreaker(BreakerOnFailures(Breaker, n))
          /\ req' = IF uncached # {}
                    THEN [req EXCEPT ![r].pc = "idem_db", ![r].dup = dup]
                    ELSE [req EXCEPT ![r].pc = "quota", ![r].dup = dup,
                                     ![r].q = QuotaTodo(evs, dup)]
    /\ UNCHANGED <<now, redisData, asyncVars, configVars, storeVars, billVars, trpcCalls>>

\* a store lookup that never finds the key
StoredIdMissing(k) == 0

\* the row of the store with this organization and idempotency key (0: none)
StoredIdOf(k) ==
    IF \E e \in events : e.org = Org /\ e.key = k
    THEN (CHOOSE e \in events : e.org = Org /\ e.key = k).id
    ELSE 0

\* checkIdempotency, lines 121-142: the store lookup of the uncached keys;
\* what it finds is written back to the cache without being awaited
IdemDb(r) ==
    /\ req[r].pc = "idem_db"
    /\ LET evs == req[r].evs
           uncached == {evs[i].key : i \in KeyedIdx(evs)} \ {k \in Keys : req[r].dup[k] # 0}
           found == {k \in uncached : StoredIdOf(k) # 0}
           dup == [k \in Keys |-> IF k \in found THEN StoredIdOf(k) ELSE req[r].dup[k]]
       IN /\ req' = [req EXCEPT ![r].pc = "quota", ![r].dup = dup,
                                ![r].q = QuotaTodo(evs, dup)]
          /\ inflightSets' = inflightSets \cup {<<k, StoredIdOf(k)>> : k \in found}
    /\ UNCHANGED <<now, cacheVars, redisData, inflightRoll, configVars, storeVars, billVars,
                   trpcCalls>>

\* a setIdempotencyKey call completes: SETEX, or an error that is swallowed
CacheSetLands(m) ==
    /\ m \in inflightSets
    /\ inflightSets' = inflightSets \ {m}
    /\ idemCache' = IF redisUp THEN [idemCache EXCEPT ![m[1]] = m[2]] ELSE idemCache
    /\ UNCHANGED <<now, cacheVars, quotaCounter, rolling, rlCount, inflightRoll, configVars,
                   storeVars, billVars, req, trpcCalls>>

\* the TTL of an idempotency entry runs out
CacheExpires(k) ==
    /\ idemCache[k] # 0
    /\ idemCache' = [idemCache EXCEPT ![k] = 0]
    /\ UNCHANGED <<now, cacheVars, quotaCounter, rolling, rlCount, asyncVars, configVars,
                   storeVars, billVars, req, trpcCalls>>

(* ------------------ CheckAndReserve: checkQuota ------------------------ *)

\* the null of quota_limits.softLimitValue
NoSoftLimit == -1

NoQuota ==
    [exists |-> FALSE, mode |-> "DISABLED", limitValue |-> 0, softLimitValue |-> NoSoftLimit,
     overageAllowed |-> 0, gracePeriodEnd |-> NoTime, resetAt |-> 0]

InGrace(lim, t) == lim.gracePeriodEnd # NoTime /\ t < lim.gracePeriodEnd

\* a HARD check that refuses a projected usage equal to the limit
EnhancedAllowedBelowLimit(lim, currentUsage, quantity, t) ==
    LET projectedUsage == currentUsage + quantity IN
    CASE lim.mode = "DISABLED" -> TRUE
      [] lim.mode = "HARD" -> ~(projectedUsage >= lim.limitValue /\ ~InGrace(lim, t))
      [] OTHER -> ~(projectedUsage > lim.limitValue + lim.overageAllowed /\ ~InGrace(lim, t))

\* the decision of checkQuotaEnhanced on the usage it read from the counter
EnhancedAllowed(lim, currentUsage, quantity, t) ==
    LET projectedUsage == currentUsage + quantity IN
    CASE lim.mode = "DISABLED" -> TRUE
      [] lim.mode = "HARD" -> ~(projectedUsage > lim.limitValue /\ ~InGrace(lim, t))
      [] OTHER -> ~(projectedUsage > lim.limitValue + lim.overageAllowed /\ ~InGrace(lim, t))

\* SUM(quantity) of the tenant's events of the type with timestamp >= resetAt
UsageSince(g, resetAt) ==
    LET S == {e \in events : e.tenant = g[1] /\ e.type = g[2] /\ e.ts >= resetAt}
    IN SumOver({e.id : e \in S}, [i \in {e.id : e \in S} |-> (CHOOSE e \in S : e.id = i).qty])

\* the store fallback of checkQuota (part_007, lines 65-109): decides, reserves nothing
FallbackAllowed(g, lim, quantity, t) ==
    LET projectedUsage == UsageSince(g, lim.resetAt) + quantity IN
    CASE lim.mode = "HARD" -> projectedUsage <= lim.limitValue \/ InGrace(lim, t)
      [] lim.mode = "SOFT" ->
           projectedUsage <= lim.limitValue + lim.overageAllowed \/ InGrace(lim, t)
      [] OTHER -> TRUE

Verdict(allowed) == IF allowed THEN "ok" ELSE "viol"

\* JavaScript truthiness of the optional softLimit: undefined and 0 are falsy
TruthyLimit(softLimit) == softLimit # NoSoftLimit /\ softLimit # 0

\* result.warning of checkQuotaEnhanced (redis.ts, lines 266-280): DISABLED
\* returns before the soft limit is looked at
EnhancedWarning(lim, currentUsage, quantity) ==
    /\ lim.mode # "DISABLED"
    /\ TruthyLimit(lim.softLimitValue)
    /\ currentUsage + quantity > lim.softLimitValue

\* warning of the store fallback of checkQuota (part_007, lines 82-104)
FallbackWarning(g, lim, quantity) ==
    /\ TruthyLimit(lim.softLimitValue)
    /\ UsageSince(g, lim.resetAt) + quantity > lim.softLimitValue

\* checkQuota of one group of the request: the quota_limits lookup, then the
\* GET of checkQuotaEnhanced or, without a usable cache, the store fallback
QuotaRead(r, g) ==
    /\ req[r].pc = "quota" /\ req[r].q[g] = "todo"
    /\ LET lim == quotaLimit[g]
           quantity == GroupQty(req[r].evs, FreshIdx(req[r].evs, req[r].dup), g)
       IN IF ~lim.exists
          THEN /\ req' = [req EXCEPT ![r].q[g] = "ok"]
               /\ UNCHANGED cacheVars
          ELSE IF circuitBreakerOpen
          THEN /\ req' = [req EXCEPT ![r].q[g] = Verdict(FallbackAllowed(g, lim, quantity, now)),
                                     ![r].warn[g] = FallbackWarning(g, lim, quantity)]
               /\ UNCHANGED cacheVars
          ELSE IF ~redisUp
          THEN /\ req' = [req EXCEPT ![r].q[g] = Verdict(FallbackAllowed(g, lim, quantity, now)),
                                     ![r].warn[g] = FallbackWarning(g, lim, quantity)]
               /\ SetBreaker(BreakerOnFailure(Breaker))
          ELSE IF EnhancedAllowed(lim, quotaCounter[g], quantity, now)
          THEN /\ req' = [req EXCEPT ![r].q[g] = "incr",
                                     ![r].warn[g] = EnhancedWarning(lim, quotaCounter[g], quantity)]
               /\ UNCHANGED cacheVars
          ELSE /\ req' = [req EXCEPT ![r].q[g] = "viol",
                                     ![r].warn[g] = EnhancedWarning(lim, quotaCounter[g], quantity)]
               /\ SetBreaker(BreakerOnSuccess(Breaker))
    /\ UNCHANGED <<now, redisData, asyncVars, configVars, storeVars, billVars, trpcCalls>>

\* checkQuotaEnhanced, the INCRBYFLOAT of an allowed check (second round trip)
QuotaIncr(r, g) ==
    /\ req[r].pc = "quota" /\ req[r].q[g] = "incr"
    /\ LET lim == quotaLimit[g]
           quantity == GroupQty(req[r].evs, FreshIdx(req[r].evs, req[r].dup), g)
       IN IF ~redisUp
          THEN /\ req' = [req EXCEPT ![r].q[g] = Verdict(FallbackAllowed(g, lim, quantity, now)),
                                     ![r].warn[g] = FallbackWarning(g, lim, quantity)]
               /\ SetBreaker(BreakerOnFailure(Breaker))
               /\ UNCHANGED quotaCounter
          ELSE /\ req' = [req EXCEPT ![r].q[g] = "ok", ![r].reserved[g] = @ + quantity]
               /\ quotaCounter' = [quotaCounter EXCEPT ![g] = @ + quantity]
               /\ SetBreaker(BreakerOnSuccess(Breaker))
    /\ UNCHANGED <<now, idemCache, rolling, rlCount, asyncVars, configVars, storeVars, billVars,
                   trpcCalls>>

QuotaSettled(rq) == \A g \in Groups : rq.q[g] \in {"na", "ok", "viol"}

\* POST, lines 370-379: some group was refused
QuotaReject(r) ==
    /\ req[r].pc = "quota" /\ QuotaSettled(req[r])
    /\ \E g \in Groups : req[r].q[g] = "viol"
    /\ req' = [req EXCEPT ![r].pc = "done", ![r].status = 403, ![r].code = "QUOTA_EXCEEDED"]
    /\ UNCHANGED <<now, cacheVars, redisData, asyncVars, configVars, storeVars, billVars, trpcCalls>>

(* ---------------------- Ingest: processSingleEvent --------------------- *)

NoResult == [id |-> 0, deduplicated |-> FALSE]

\* POST, lines 381-386: processSingleEvent is called for every event; the
\* duplicates return at once, the fresh ones wait for their insert
BeginPersist(r) ==
    /\ req[r].pc = "quota" /\ QuotaSettled(req[r])
    /\ \A g \in Groups : req[r].q[g] # "viol"
    /\ LET evs == req[r].evs
           fresh == FreshIdx(evs, req[r].dup)
           res == [i \in 1..Len(evs) |->
                     IF i \in fresh THEN NoResult
                     ELSE [id |-> req[r].dup[evs[i].key], deduplicated |-> TRUE]]
       IN req' = IF fresh = {}
                 THEN [req EXCEPT ![r].pc = "done", ![r].res = res, ![r].status = 200]
                 ELSE [req EXCEPT ![r].pc = "persist", ![r].res = res, ![r].pend = fresh]
    /\ UNCHANGED <<now, cacheVars, redisData, asyncVars, configVars, storeVars, billVars, trpcCalls>>

\* a store without the unique index
UniqueKeyUnchecked(org, key) == TRUE

\* the unique index usage_events_organizationId_idempotencyKey_key accepts the row
UniqueKeyFree(org, key) ==
    key = NoKey \/ ~(\E e \in events : e.org = org /\ e.key = key)

NewEvent(id, e, t, by) ==
    [id |-> id, org |-> Org, tenant |-> e.tenant, type |-> e.type, qty |-> e.qty,
     ts |-> IF e.ts = NoTime THEN t ELSE e.ts, key |-> e.key,
     invoiceId |-> 0, billedAt |-> NoTime, by |-> by]

\* the status the request answers with: the first rejected insert makes it 500
AfterInsert(rq, i, ok, id) ==
    LET pend == rq.pend \ {i}
        status == IF rq.status # 0 THEN rq.status ELSE IF ~ok THEN 500
                  ELSE IF pend = {} THEN 200 ELSE 0
    IN [rq EXCEPT !.pend = pend,
                  !.res[i] = IF ok THEN [id |-> id, deduplicated |-> FALSE] ELSE @,
                  !.status = status,
                  !.pc = IF pend = {} THEN "done" ELSE "persist"]

\* processSingleEvent, lines 210-243, for one fresh event: the insert, then the
\* cache entry and the rolling counters that nobody awaits
PersistEvent(r, i) ==
    /\ req[r].pc = "persist" /\ i \in req[r].pend
    /\ LET e == req[r].evs[i]
           ok == UniqueKeyFree(Org, e.key)
       IN /\ req' = [req EXCEPT ![r] = AfterInsert(req[r], i, ok, nextEventId)]
          /\ IF ok
             THEN /\ events' = events \cup {NewEvent(nextEventId, e, now, r)}
                  /\ nextEventId' = nextEventId + 1
                  /\ inflightSets' = IF Truthy(e.key)
                                     THEN inflightSets \cup {<<e.key, nextEventId>>}
                                     ELSE inflightSets
                  /\ inflightRoll' = IF circuitBreakerOpen THEN inflightRoll
                                     ELSE inflightRoll \cup {<<nextEventId, GroupOf(e), e.qty>>}
             ELSE UNCHANGED <<events, nextEventId, inflightSets, inflightRoll>>
    /\ UNCHANGED <<now, cacheVars, redisData, configVars, billVars, trpcCalls>>

\* the rolling-counter update of an inserted event completes
RollingLands(m) ==
    /\ m \in inflightRoll
    /\ inflightRoll' = inflightRoll \ {m}
    /\ IF redisUp
       THEN /\ rolling' = [rolling EXCEPT ![m[2]] = @ + m[3]]
            /\ SetBreaker(BreakerOnSuccess(Breaker))
       ELSE /\ UNCHANGED rolling
            /\ SetBreaker(BreakerOnFailure(Breaker))
    /\ UNCHANGED <<now, idemCache, quotaCounter, rlCount, inflightSets, configVars, storeVars,
                   billVars, req, trpcCalls>>

(* ------------------------ tRPC usage.recordEvent ------------------------ *)

\* the store fallback of recordEvent (part_011, lines 77-111): limitValue alone decides
TrpcFallbackAllowed(g, lim, quantity) ==
    ~lim.exists \/ UsageSince(g, lim.resetAt) + quantity <= lim.limitValue

\* a limit key that mirrors the limitValue of the quota_limits row
CacheLimitFromStore(g) == quotaLimit[g].limitValue

\* checkAndIncrementQuota, lines 211-222: the GET of the limit key
\* quota:tenant:..:limit, which nothing writes: null is read as Infinity
CacheLimit(g) == Infinity

\* usage.recordEvent, as one step: the quota check (checkAndIncrementQuota reads
\* the limit from a cache key that nothing writes, so the limit is Infinity and
\* the counter is incremented), the awaited rolling counters, the insert
TrpcRecordEvent(t, type, quantity, ts, skipQuotaCheck) ==
    /\ trpcCalls < MaxTrpc
    /\ tenantStatus[t] # "NONE"
    /\ LET g == <<t, type>>
           lim == quotaLimit[g]
           viaCache == ~skipQuotaCheck /\ ~circuitBreakerOpen /\ redisUp
           b1 == IF skipQuotaCheck \/ circuitBreakerOpen THEN Breaker
                 ELSE IF redisUp THEN BreakerOnSuccess(Breaker)
                 ELSE BreakerOnFailure(Breaker)
           allowed == \/ skipQuotaCheck
                      \/ IF viaCache
                         THEN ~lim.exists \/ ~Less(CacheLimit(g), quotaCounter[g] + quantity)
                         ELSE TrpcFallbackAllowed(g, lim, quantity)
           b2 == IF b1.open THEN b1
                 ELSE IF redisUp THEN BreakerOnSuccess(b1)
                 ELSE BreakerOnFailure(b1)
       IN /\ trpcCalls' = trpcCalls + 1
          /\ quotaCounter' = IF viaCache /\ lim.exists
                             THEN [quotaCounter EXCEPT ![g] = @ + quantity]
                             ELSE quotaCounter
          /\ IF allowed
             THEN /\ SetBreaker(b2)
                  /\ rolling' = IF ~b1.open /\ redisUp
                                THEN [rolling EXCEPT ![g] = @ + quantity] ELSE rolling
                  /\ events' = events \cup
                        {NewEvent(nextEventId,
                                  [tenant |-> t, type |-> type, qty |-> quantity,
                                   key |-> NoKey, ts |-> ts], now, 0)}
                  /\ nextEventId' = nextEventId + 1
             ELSE /\ SetBreaker(b1)
                  /\ UNCHANGED <<rolling, events, nextEventId>>
    /\ UNCHANGED <<now, idemCache, rlCount, asyncVars, configVars, billVars, req>>

(* --------------------- snapshots and invoice builds --------------------- *)

DayStart(t) == (t \div MsPerDay) * MsPerDay
\* the last millisecond of the day (setUTCHours(23, 59, 59, 999))
DayEnd(t) == DayStart(t) + MsPerDay - 1

\* SUM(quantity) over a set of events
QtySum(S) ==
    SumOver({e.id : e \in S}, [i \in {e.id : e \in S} |-> (CHOOSE e \in S : e.id = i).qty])

EventsOn(t, type, day) ==
    {e \in events : e.tenant = t /\ e.type = type /\ e.ts >= DayStart(day) /\ e.ts <= DayEnd(day)}

\* the groupBy of the job (lines 99-116): one row per ACTIVE tenant and event
\* type with events on the day, with the summed quantity
SnapshotRows(date) ==
    LET day == DayStart(date)
    IN {[tenant |-> t, date |-> day, type |-> ty,
         totalQuantity |-> QtySum(EventsOn(t, ty, day))] :
           <<t, ty>> \in {g \in Groups : tenantStatus[g[1]] = "ACTIVE"
                                        /\ EventsOn(g[1], g[2], day) # {}}}

SameSnapshotKey(s, f) == f.tenant = s.tenant /\ f.date = s.date /\ f.type = s.type

\* an upsert whose update adds the quantity to the one the row holds
UpsertedAdding(fresh) ==
    {s \in snapshots : ~(\E f \in fresh : SameSnapshotKey(s, f))}
      \cup {[f EXCEPT !.totalQuantity =
                 @ + SumOver({s.totalQuantity : s \in {x \in snapshots : SameSnapshotKey(x, f)}},
                             [n \in Int |-> n])] : f \in fresh}

\* the upserts on (tenantId, snapshotDate, eventType), lines 124-145: a row
\* that exists gets the new totalQuantity, the others are created
Upserted(fresh) ==
    {s \in snapshots : ~(\E f \in fresh : SameSnapshotKey(s, f))} \cup fresh

\* POST /api/cron/snapshots for the day of `date`; a run that changes no row
\* leaves the state as it is
SnapshotJob(date) ==
    /\ snapshots' = Upserted(SnapshotRows(date))
    /\ snapshots' # snapshots
    /\ UNCHANGED <<now, cacheVars, redisData, asyncVars, configVars, storeVars, invoices,
                   nextInvoiceId, build, req, trpcCalls>>

\* customers.updateStatus: any status may be written
UpdateStatus(t, status) ==
    /\ tenantStatus[t] \notin {"NONE", status}
    /\ tenantStatus' = [tenantStatus EXCEPT ![t] = status]
    /\ UNCHANGED <<now, cacheVars, redisData, asyncVars, quotaLimit, rateLimit, pricingTiers,
                   storeVars, billVars, req, trpcCalls>>

\* billing periods the invoice builds are asked for: the first day, and the
\* first two days
Periods == {<<0, MsPerDay - 1>>, <<0, 2 * MsPerDay - 1>>}

\* generateInvoice, lines 89-139: usage per event type, summed from the
\* snapshots whose date lies in the period
UsageFromSnapshots(t, periodStart, periodEnd) ==
    [ty \in EventTypes |->
       LET S == {s \in snapshots : s.tenant = t /\ s.type = ty
                                   /\ s.date >= periodStart /\ s.date <= periodEnd}
       IN SumOver({s.date : s \in S},
                  [d \in {s.date : s \in S} |-> (CHOOSE s \in S : s.date = d).totalQuantity])]

\* Math.min, Math.max and the difference of numbers of which the second of min
\* and max, and the first of the difference, may be Infinity
MinInf(a, b) == IF b = Infinity THEN a ELSE IF a <= b THEN a ELSE b
MaxInf(a, b) == IF b = Infinity THEN Infinity ELSE Max(a, b)
SubInf(a, b) == IF a = Infinity THEN Infinity ELSE a - b

NoWalk == [processed |-> 0, totalPrice |-> 0, tierBreakdown |-> <<>>]

RECURSIVE TierWalk(_, _, _, _)
\* the loop over the tiers of one event type (lines 173-223); a maxQuantity
\* of null is Infinity; acc holds processedQuantity, totalPrice and tierBreakdown
TierWalk(relevantTiers, i, totalQuantity, acc) ==
    IF i > Len(relevantTiers) \/ acc.processed >= totalQuantity THEN acc
    ELSE LET tier == relevantTiers[i]
             tierMin == tier.minQuantity
             tierMax == tier.maxQuantity
             tierPrice == tier.unitPrice
             tierCapacity == SubInf(tierMax, tierMin)
             quantityToProcess == totalQuantity - acc.processed
             Push(quantity, processed) ==
                 [processed |-> processed,
                  totalPrice |-> acc.totalPrice + quantity * tierPrice,
                  tierBreakdown |-> Append(acc.tierBreakdown,
                                           [tierLevel |-> tier.tierLevel, quantity |-> quantity,
                                            unitPrice |-> tierPrice,
                                            subtotal |-> quantity * tierPrice])]
         IN IF acc.processed < tierMin
            THEN LET quantityInTier == MinInf(totalQuantity - tierMin, tierCapacity)
                     actualQuantity == MinInf(quantityInTier, totalQuantity - tierMin)
                 IN IF quantityInTier > 0 /\ totalQuantity > tierMin /\ actualQuantity > 0
                    THEN TierWalk(relevantTiers, i + 1, totalQuantity,
                                  Push(actualQuantity, tierMin + actualQuantity))
                    ELSE TierWalk(relevantTiers, i + 1, totalQuantity, acc)
            ELSE LET remainingInTier == MaxInf(0, SubInf(tierMax, acc.processed))
                     quantityInTier == MinInf(quantityToProcess, remainingInTier)
                 IN IF quantityInTier > 0
                    THEN TierWalk(relevantTiers, i + 1, totalQuantity,
                                  Push(quantityInTier, acc.processed + quantityInTier))
                    ELSE TierWalk(relevantTiers, i + 1, totalQuantity, acc)

\* a generator that prices nothing when no tier matched
NoDefaultPricing(relevantTiers, totalQuantity, walked) == walked

\* lines 225-236: when no tier matched, the first tier prices the whole quantity
DefaultPricing(relevantTiers, totalQuantity, walked) ==
    IF Len(walked.tierBreakdown) = 0 /\ Len(relevantTiers) > 0
    THEN LET defaultTier == relevantTiers[1]
             tierPrice == defaultTier.unitPrice
         IN [walked EXCEPT !.totalPrice = totalQuantity * tierPrice,
                           !.tierBreakdown =
                              <<[tierLevel |-> defaultTier.tierLevel, quantity |-> totalQuantity,
                                 unitPrice |-> tierPrice,
                                 subtotal |-> totalQuantity * tierPrice]>>]
    ELSE walked

\* the period the pricing runs invoice: the first day
FirstDay == <<0, MsPerDay - 1>>

NoLineItem == [quantity |-> 0, totalPrice |-> 0, tierBreakdown |-> <<>>]

\* lines 156-245: the line item of one event type (none for a usage of 0); the
\* tiers are those of the type, in the order of their tierLevel, and all of
\* them are in effect during the period
LineItem(eventType, totalQuantity) ==
    IF totalQuantity <= 0 THEN NoLineItem
    ELSE LET relevantTiers == SelectSeq(pricingTiers, LAMBDA tier : tier.eventType = eventType)
             priced == DefaultPricing(relevantTiers, totalQuantity,
                                      TierWalk(relevantTiers, 1, totalQuantity, NoWalk))
         IN [quantity |-> totalQuantity, totalPrice |-> priced.totalPrice,
             tierBreakdown |-> priced.tierBreakdown]

\* lines 251-256: the number of the next invoice is the organization's invoice
\* count plus one (the prefix INV-{SLUG}- is the same for all of them)
InvoiceNumber == Cardinality(invoices) + 1

\* generateInvoice up to the transaction: the tenant, the snapshots, the line
\* items (a type with no usage gets none) and the invoice count for the number
BuildRead(b, t, period) ==
    /\ build[b].pc = "idle"
    /\ \A c \in Builds : c < b => build[c].pc # "idle"
    /\ tenantStatus[t] # "NONE"
    /\ build' = [build EXCEPT ![b] =
                   [pc |-> "commit", tenant |-> t, periodStart |-> period[1],
                    periodEnd |-> period[2],
                    lines |-> UsageFromSnapshots(t, period[1], period[2]),
                    items |-> [ty \in EventTypes |->
                                 LineItem(ty, UsageFromSnapshots(t, period[1], period[2])[ty])],
                    number |-> InvoiceNumber]]
    /\ UNCHANGED <<now, cacheVars, redisData, asyncVars, configVars, storeVars, snapshots,
                   invoices, nextInvoiceId, req, trpcCalls>>

\* an updateMany whose period filter is gt / lte
ToLinkAfterStart(t, periodStart, periodEnd) ==
    {e \in events : e.tenant = t /\ e.ts > periodStart /\ e.ts <= periodEnd
                    /\ e.invoiceId = 0}

\* an updateMany without the invoiceId: null filter
ToLinkBilledToo(t, periodStart, periodEnd) ==
    {e \in events : e.tenant = t /\ e.ts >= periodStart /\ e.ts <= periodEnd}

\* the events the updateMany of the transaction links: the tenant's events of
\* the period that no invoice has billed yet
ToLink(t, periodStart, periodEnd) ==
    {e \in events : e.tenant = t /\ e.ts >= periodStart /\ e.ts <= periodEnd
                    /\ e.invoiceId = 0}

\* a store without the unique index on the invoice number
NumberUnchecked(number) == TRUE

\* the unique index invoices_invoiceNumber_key accepts the row
NumberFree(number) == ~(\E i \in invoices : i.number = number)

\* an updateMany that writes the invoiceId alone
LinkedUndated(e, invoiceId, billedAt) == [e EXCEPT !.invoiceId = invoiceId]

\* the data of the updateMany (lines 308-311): invoiceId and billedAt together
Linked(e, invoiceId, billedAt) == [e EXCEPT !.invoiceId = invoiceId, !.billedAt = billedAt]

\* generateInvoice, lines 267-315: the transaction. A taken invoice number
\* violates the unique index and nothing is written.
BuildCommit(b) ==
    /\ build[b].pc = "commit"
    /\ IF ~NumberFree(build[b].number)
       THEN /\ build' = [build EXCEPT ![b].pc = "failed"]
            /\ UNCHANGED <<events, invoices, nextInvoiceId>>
       ELSE LET linked == ToLink(build[b].tenant, build[b].periodStart, build[b].periodEnd) IN
            /\ build' = [build EXCEPT ![b].pc = "done"]
            /\ invoices' = invoices \cup
                 {[id |-> nextInvoiceId, tenant |-> build[b].tenant,
                   number |-> build[b].number, periodStart |-> build[b].periodStart,
                   periodEnd |-> build[b].periodEnd, status |-> "DRAFT",
                   lines |-> build[b].lines, items |-> build[b].items]}
            /\ nextInvoiceId' = nextInvoiceId + 1
            /\ events' = (events \ linked) \cup
                 {Linked(e, nextInvoiceId, now) : e \in linked}
    /\ UNCHANGED <<now, cacheVars, redisData, asyncVars, configVars, nextEventId, snapshots,
                   req, trpcCalls>>

\* admin.bulkGenerateInvoices for one ACTIVE tenant, lines 279-318: the tenant
\* and its snapshots of the period are read (no snapshot: the tenant is
\* skipped), then the invoice count for the number
BulkRead(b, t, period) ==
    /\ build[b].pc = "idle"
    /\ \A c \in Builds : c < b => build[c].pc # "idle"
    /\ tenantStatus[t] = "ACTIVE"
    /\ \E s \in snapshots : s.tenant = t /\ s.date >= period[1] /\ s.date <= period[2]
    /\ build' = [build EXCEPT ![b] =
                   [pc |-> "bulk_create", tenant |-> t, periodStart |-> period[1],
                    periodEnd |-> period[2], lines |-> [ty \in EventTypes |-> 0],
                    items |-> [ty \in EventTypes |-> NoLineItem],
                    number |-> InvoiceNumber]]
    /\ UNCHANGED <<now, cacheVars, redisData, asyncVars, configVars, storeVars, snapshots,
                   invoices, nextInvoiceId, req, trpcCalls>>

\* admin.bulkGenerateInvoices, lines 320-335: the invoice is created with no
\* line items and no event is linked; a taken number rejects the create
BulkCreate(b) ==
    /\ build[b].pc = "bulk_create"
    /\ IF ~NumberFree(build[b].number)
       THEN /\ build' = [build EXCEPT ![b].pc = "bulk_failed"]
            /\ UNCHANGED <<invoices, nextInvoiceId>>
       ELSE /\ build' = [build EXCEPT ![b].pc = "bulk_done"]
            /\ invoices' = invoices \cup
                 {[id |-> nextInvoiceId, tenant |-> build[b].tenant,
                   number |-> build[b].number, periodStart |-> build[b].periodStart,
                   periodEnd |-> build[b].periodEnd, status |-> "DRAFT",
                   lines |-> build[b].lines, items |-> build[b].items]}
            /\ nextInvoiceId' = nextInvoiceId + 1
    /\ UNCHANGED <<now, cacheVars, redisData, asyncVars, configVars, storeVars, snapshots,
                   req, trpcCalls>>

(* --------------------------- specifications ---------------------------- *)

\* limit of the HARD quotas the runs configure
QuotaLimitValue == 2

HardQuota(limit) ==
    [exists |-> TRUE, mode |-> "HARD", limitValue |-> limit, softLimitValue |-> NoSoftLimit,
     overageAllowed |-> 0, gracePeriodEnd |-> NoTime, resetAt |-> 0]

NoRateLimit == [exists |-> FALSE, perSecond |-> 0, perMinute |-> 0, perHour |-> 0]

\* the instant the runs start at: the third day after the epoch
StartOfRun == 2 * MsPerDay

InitCommon ==
    /\ now = StartOfRun
    /\ redisUp = TRUE /\ flips = 0
    /\ circuitBreakerOpen = FALSE /\ breakerTimers = 0
    /\ idemCache = [k \in Keys |-> 0]
    /\ quotaCounter = [g \in Groups |-> 0]
    /\ rolling = [g \in Groups |-> 0]
    /\ rlCount = [k \in {} |-> 0]
    /\ inflightSets = {} /\ inflightRoll = {}
    /\ tenantStatus = [t \in Tenants |-> "NONE"]
    /\ events = {} /\ nextEventId = 1
    /\ snapshots = {} /\ invoices = {} /\ nextInvoiceId = 1
    /\ req = [r \in Reqs |-> IdleReq]
    /\ build = [b \in Builds |-> [pc |-> "idle"]]
    /\ trpcCalls = 0

\* an event as a caller sends it: no timestamp (the server's clock is used);
\* qty = 0 stands for a quantity the schema rejects
Ev(type, qty, key) ==
    [tenant |-> "t1", type |-> type, qty |-> qty, key |-> key, ts |-> NoTime]

Single(e) == [batch |-> FALSE, evs |-> <<e>>]
Pair(e1, e2) == [batch |-> TRUE, evs |-> <<e1, e2>>]

\* what the callers of the concurrent runs send: a keyed event, an event that
\* fills a quota at once, batches over two groups, a batch that repeats a key
\* and a batch with an event the schema rejects
IngestPayloads ==
    { Single(Ev("api", 1, "k1")),
      Single(Ev("api", MaxQty, NoKey)),
      Pair(Ev("api", 1, "k1"), Ev("sms", 1, NoKey)),
      Pair(Ev("api", 1, NoKey), Ev("sms", MaxQty, NoKey)),
      Pair(Ev("api", 1, "k1"), Ev("api", 1, "k1")),
      Pair(Ev("api", 1, NoKey), Ev("sms", 0, NoKey)) }

Init ==
    /\ InitCommon
    /\ circuitBreakerFailures = 0
    /\ quotaLimit \in {[g \in Groups |-> c] : c \in {NoQuota, HardQuota(QuotaLimitValue)}}
    /\ rateLimit = NoRateLimit
    /\ pricingTiers = <<>>

\* the stages of a request whose API key carries no rate-limit policy
IngestStep(r) ==
    \/ RateLookup(r)
    \/ Parse(r)
    \/ TenantsFind(r)
    \/ TenantsUpsert(r)
    \/ IdemCache(r)
    \/ IdemDb(r)
    \/ \E g \in Groups : QuotaRead(r, g)
    \/ \E g \in Groups : QuotaIncr(r, g)
    \/ QuotaReject(r)
    \/ BeginPersist(r)
    \/ \E i \in 1..2 : PersistEvent(r, i)

Background ==
    \/ \E m \in inflightSets : CacheSetLands(m)
    \/ \E k \in Keys : CacheExpires(k)
    \/ \E m \in inflightRoll : RollingLands(m)
    \/ RedisFail
    \/ RedisRecover
    \/ BreakerTimerFires

Next ==
    \/ \E r \in 1..MaxInFlight : Submit(r, IngestPayloads, MaxInFlight)
    \/ \E r \in Reqs : IngestStep(r)
    \/ Background

Spec == Init /\ [][Next]_vars

(* sequential callers: one request at a time, every one with the keyed event
   the first one sent; a quota, where one is configured, is below the largest
   quantity a caller sends *)

KeyedSingles == {Single(Ev(ty, q, k)) : ty \in EventTypes, q \in 1..MaxQty, k \in Keys}

NextSeq ==
    \/ \E r \in Reqs :
         Submit(r, {p \in KeyedSingles : \A q \in Reqs : req[q].pc # "idle" => req[q].evs = p.evs}, 1)
    \/ \E r \in Reqs : IngestStep(r)
    \/ Background

InitSeq ==
    /\ InitCommon
    /\ circuitBreakerFailures = 0
    /\ quotaLimit \in {[g \in Groups |-> c] : c \in {NoQuota, HardQuota(QuotaLimitValue - 1)}}
    /\ rateLimit = NoRateLimit
    /\ pricingTiers = <<>>

SpecSeq == InitSeq /\ [][NextSeq]_vars

(* rate limiting: one caller after the other while the clock runs; the body the
   callers send fails the schema, so a request ends at the parse stage *)

\* the limit the rate-limit policies of the runs configure
RateLimitValue == 2

Policy(perSecond, perMinute, perHour) ==
    [exists |-> TRUE, perSecond |-> perSecond, perMinute |-> perMinute, perHour |-> perHour]

\* one granularity alone, or all three with the widest window the tightest
RatePolicies ==
    { Policy(RateLimitValue, 0, 0), Policy(0, RateLimitValue, 0), Policy(0, 0, RateLimitValue),
      Policy(RateLimitValue + 1, RateLimitValue + 1, RateLimitValue) }

\* the runs start with no failure counted, or one failure short of the threshold
InitRate ==
    /\ InitCommon
    /\ circuitBreakerFailures \in {0, CIRCUIT_BREAKER_THRESHOLD - 1}
    /\ quotaLimit = [g \in Groups |-> NoQuota]
    /\ rateLimit \in RatePolicies
    /\ pricingTiers = <<>>

\* the body the callers of the rate-limit runs send
RatePayloads == {Single(Ev("api", 0, NoKey))}

NextRate ==
    \/ \E r \in Reqs : Submit(r, RatePayloads, 1)
    \/ \E r \in Reqs : RateLookup(r)
    \/ \E r \in Reqs : RateRead(r)
    \/ \E r \in Reqs : RateIncr(r)
    \/ \E r \in Reqs : Parse(r)
    \/ RedisFail
    \/ RedisRecover
    \/ BreakerTimerFires
    \/ Tick

SpecRate == InitRate /\ [][NextRate]_vars

(* billing: ingestion, the snapshot job and invoice builds; the cache stays
   up and what it holds plays no part, so the rolling-counter updates that
   nobody awaits are left pending *)

InitBill ==
    /\ InitCommon
    /\ circuitBreakerFailures = 0
    /\ quotaLimit = [g \in Groups |-> NoQuota]
    /\ rateLimit = NoRateLimit
    /\ pricingTiers = <<>>

\* the event the ingest API receives in the billing runs: it is dated on the
\* first day (recordEvent dates its events on the first or the second day)
BillEvents == {[Ev("api", 1, NoKey) EXCEPT !.ts = 0]}
BillPayloads == {Single(e) : e \in BillEvents}

NextBill ==
    \/ \E r \in 1..1 : Submit(r, BillPayloads, 1)
    \/ \E r \in 1..1 : \/ RateLookup(r)
                       \/ Parse(r)
                       \/ TenantsFind(r)
                       \/ TenantsUpsert(r)
                       \/ IdemCache(r)
                       \/ \E g \in Groups : QuotaRead(r, g)
                       \/ BeginPersist(r)
                       \/ PersistEvent(r, 1)
    \/ \E t \in Tenants, ts \in {0, MsPerDay} :
         TrpcRecordEvent(t, "api", 1, ts, TRUE)
    \/ \E d \in {0, MsPerDay} : SnapshotJob(d)
    \/ \E t \in Tenants, s \in {"ACTIVE", "SUSPENDED"} : UpdateStatus(t, s)
    \/ \E b \in Builds, t \in Tenants, p \in Periods : BuildRead(b, t, p)
    \/ \E b \in Builds : BuildCommit(b)

SpecBill == InitBill /\ [][NextBill]_vars

(* invoice numbering: one event is ingested and snapshotted, and invoices are
   issued by generateInvoice and by bulkGenerateInvoices, one call while the
   other is still running *)

NextNum ==
    \/ \E r \in 1..1 : Submit(r, BillPayloads, 1)
    \/ \E r \in 1..1 : \/ RateLookup(r)
                       \/ Parse(r)
                       \/ TenantsFind(r)
                       \/ TenantsUpsert(r)
                       \/ IdemCache(r)
                       \/ \E g \in Groups : QuotaRead(r, g)
                       \/ BeginPersist(r)
                       \/ PersistEvent(r, 1)
    \/ SnapshotJob(0)
    \/ \E b \in Builds, t \in Tenants, p \in Periods : BuildRead(b, t, p)
    \/ \E b \in Builds : BuildCommit(b)
    \/ \E b \in Builds, t \in Tenants, p \in Periods : BulkRead(b, t, p)
    \/ \E b \in Builds : BulkCreate(b)

SpecNum == InitBill /\ [][NextNum]_vars
(* tiered pricing: the usage of one day, from one ingested event and one
   recorded through tRPC, is snapshotted and invoiced under a tier list *)

\* largest bound of a tier's range
TierSpan == 3

\* the ranges [minQuantity, maxQuantity) a tier may cover (Infinity: no maximum)
TierRanges ==
    {<<lo, hi>> \in (0..TierSpan - 1) \X ((1..TierSpan) \cup {Infinity}) :
       hi = Infinity \/ lo < hi}

\* unit prices by tier level: the first tier is the dearest
TierPrices == <<3, 2>>

Tier(eventType, tierLevel, range) ==
    [eventType |-> eventType, tierLevel |-> tierLevel, minQuantity |-> range[1],
     maxQuantity |-> range[2], unitPrice |-> TierPrices[tierLevel]]

\* no tier, one tier, two tiers of any two ranges (adjacent, overlapping or
\* with a gap), and a tier of the type behind a tier of another type
TierLists ==
    {<<>>}
      \cup {<<Tier("api", 1, a)>> : a \in TierRanges}
      \cup {<<Tier("api", 1, a), Tier("api", 2, b)>> : a \in TierRanges, b \in TierRanges}
      \cup {<<Tier("sms", 1, <<0, Infinity>>), Tier("api", 2, a)>> : a \in TierRanges}

InitTier ==
    /\ InitCommon
    /\ circuitBreakerFailures = 0
    /\ quotaLimit = [g \in Groups |-> NoQuota]
    /\ rateLimit = NoRateLimit
    /\ pricingTiers \in TierLists

\* the events the ingest API receives in the pricing runs, dated on the first day
TierPayloads == {Single([Ev("api", quantity, NoKey) EXCEPT !.ts = 0]) : quantity \in 1..MaxQty}

NextTier ==
    \/ \E r \in 1..1 : Submit(r, TierPayloads, 1)
    \/ \E r \in 1..1 : \/ RateLookup(r)
                       \/ Parse(r)
                       \/ TenantsFind(r)
                       \/ TenantsUpsert(r)
                       \/ IdemCache(r)
                       \/ \E g \in Groups : QuotaRead(r, g)
                       \/ BeginPersist(r)
                       \/ PersistEvent(r, 1)
    \/ \E t \in Tenants, quantity \in 1..MaxQty :
         trpcCalls = 0 /\ TrpcRecordEvent(t, "api", quantity, 0, TRUE)
    \/ SnapshotJob(0)
    \/ \E b \in 1..1, t \in Tenants : BuildRead(b, t, FirstDay)
    \/ \E b \in 1..1 : BuildCommit(b)

SpecTier == InitTier /\ [][NextTier]_vars
(* quota modes: one caller after the other sends an event without a key while
   the clock runs and the cache comes and goes; the groups carry a limit of
   one of the enforcement modes *)

Quota(mode, overageAllowed, gracePeriodEnd) ==
    [exists |-> TRUE, mode |-> mode, limitValue |-> QuotaLimitValue, softLimitValue |-> NoSoftLimit,
     overageAllowed |-> overageAllowed, gracePeriodEnd |-> gracePeriodEnd, resetAt |-> 0]

\* HARD and SOFT limits without a grace period or with one that ends a second
\* after the start, SOFT limits without and with an overage, and a DISABLED one
QuotaModes ==
    { Quota("HARD", 0, NoTime), Quota("HARD", 0, StartOfRun + MsPerSecond),
      Quota("SOFT", 0, NoTime), Quota("SOFT", 1, NoTime),
      Quota("SOFT", 1, StartOfRun + MsPerSecond), Quota("DISABLED", 0, NoTime) }

QuotaPayloads == {Single(Ev("api", quantity, NoKey)) : quantity \in 1..MaxQty}

InitQuota ==
    /\ InitCommon
    /\ circuitBreakerFailures \in {0, CIRCUIT_BREAKER_THRESHOLD - 1}
    /\ quotaLimit \in {[g \in Groups |-> c] : c \in QuotaModes}
    /\ rateLimit = NoRateLimit
    /\ pricingTiers = <<>>

NextQuota ==
    \/ \E r \in 1..3 : Submit(r, QuotaPayloads, 1)
    \/ \E r \in 1..3 : \/ RateLookup(r)
                       \/ Parse(r)
                       \/ TenantsFind(r)
                       \/ TenantsUpsert(r)
                       \/ IdemCache(r)
                       \/ \E g \in Groups : QuotaRead(r, g)
                       \/ \E g \in Groups : QuotaIncr(r, g)
                       \/ QuotaReject(r)
                       \/ BeginPersist(r)
                       \/ PersistEvent(r, 1)
    \/ RedisFail
    \/ RedisRecover
    \/ BreakerTimerFires
    \/ Tick

SpecQuota == InitQuota /\ [][NextQuota]_vars
(* caller-supplied timestamps: one caller after the other sends an event
   that carries no timestamp or one of the first day; the quota period of the
   groups started on the second day and the runs start on the third *)

QuotaSinceSecondDay == [HardQuota(QuotaLimitValue) EXCEPT !.resetAt = MsPerDay]

StampPayloads ==
    {Single([Ev("api", quantity, NoKey) EXCEPT !.ts = ts]) :
       quantity \in 1..MaxQty, ts \in {NoTime, 0}}

InitStamp ==
    /\ InitCommon
    /\ circuitBreakerFailures = 0
    /\ quotaLimit = [g \in Groups |-> QuotaSinceSecondDay]
    /\ rateLimit = NoRateLimit
    /\ pricingTiers = <<>>

NextStamp ==
    \/ \E r \in Reqs : Submit(r, StampPayloads, 1)
    \/ \E r \in Reqs : \/ RateLookup(r)
                       \/ Parse(r)
                       \/ TenantsFind(r)
                       \/ TenantsUpsert(r)
                       \/ IdemCache(r)
                       \/ \E g \in Groups : QuotaRead(r, g)
                       \/ \E g \in Groups : QuotaIncr(r, g)
                       \/ QuotaReject(r)
                       \/ BeginPersist(r)
                       \/ PersistEvent(r, 1)
    \/ RedisFail
    \/ RedisRecover

SpecStamp == InitStamp /\ [][NextStamp]_vars

(* ------------------------------ properties ----------------------------- *)

\* C1: when the same keyed event is submitted several times, one request after
\* the other, at most one record with the key is persisted; no submission fails
\* with a server error; a submission that follows an accepted one of the same
\* event is accepted too; and the accepted submissions all answer with the id of
\* the one record, exactly one of them with deduplicated = false.
C1_SequentialIdempotency ==
    /\ \A r \in Reqs : req[r].status # 500
    /\ \A r, s \in Reqs :
         (s < r /\ req[s].status = 200 /\ req[r].pc = "done" /\ req[r].evs = req[s].evs)
           => req[r].status = 200
    /\ \A k \in Keys :
         LET rows == {e \in events : e.org = Org /\ e.key = k}
             accepted == {r \in Reqs : /\ req[r].pc = "done" /\ req[r].status = 200
                                       /\ req[r].evs[1].key = k}
         IN /\ Cardinality(rows) <= 1
            /\ accepted # {} =>
                 /\ Cardinality(rows) = 1
                 /\ \A r \in accepted : \A e \in rows : req[r].res[1].id = e.id
                 /\ Cardinality({r \in accepted : ~req[r].res[1].deduplicated}) = 1

\* every submission of the run carried the same event and was accepted, the
\* later ones without the cache (it is down and holds no entry for the key)
C1_Witness ==
    /\ \A r \in Reqs : req[r].status = 200 /\ req[r].evs = req[1].evs
    /\ Cardinality({r \in Reqs : req[r].res[1].deduplicated}) = MaxReqs - 1
    /\ quotaLimit[<<"t1", "api">>].exists
    /\ ~redisUp /\ idemCache["k1"] = 0

\* C2: two concurrent submissions of the same keyed event, made while the store
\* holds no event with the key, are both answered 200 with the same event id,
\* at most one of them with deduplicated = false.
C2_ConcurrentDuplicates ==
    \A r1, r2 \in Reqs :
      ( /\ r1 # r2
        /\ req[r1].pc = "done" /\ req[r2].pc = "done"
        /\ ~req[r1].batch /\ ~req[r2].batch
        /\ req[r1].evs = req[r2].evs
        /\ Truthy(req[r1].evs[1].key) )
      => /\ req[r1].status = 200 /\ req[r2].status = 200
         /\ req[r1].res[1].id = req[r2].res[1].id
         /\ req[r1].res[1].deduplicated \/ req[r2].res[1].deduplicated

\* C3: no two persisted events of an organization share a non-null idempotency key.
C3_UniqueKeys ==
    \A e, f \in events :
      (e.org = f.org /\ e.key # NoKey /\ e.key = f.key) => e.id = f.id

\* a record with the key is stored and a request that tried to store a second
\* one was turned away by the index
C3_Witness ==
    /\ \E e \in events : e.org = Org /\ e.key = "k1"
    /\ \E r \in Reqs : req[r].status = 500 /\ (\E i \in 1..Len(req[r].evs) : req[r].res[i].id = 0)

\* C4: for a HARD quota with no active grace period, the quantity of the
\* persisted events of the group in the current period never exceeds the limit.
C4_HardQuotaNeverExceeded ==
    \A g \in Groups :
      (quotaLimit[g].exists /\ quotaLimit[g].mode = "HARD" /\ ~InGrace(quotaLimit[g], now))
        => UsageSince(g, quotaLimit[g].resetAt) <= quotaLimit[g].limitValue

\* C5: on every issued invoice, for every event type, the quantity of the line
\* item (none counts as 0) equals the summed quantity of the events linked to
\* the invoice.
C5_LineItemsMatchLinkedEvents ==
    \A i \in invoices : \A ty \in EventTypes :
      i.lines[ty] = QtySum({e \in events : e.invoiceId = i.id /\ e.type = ty})

\* C6: an event that is linked to an invoice keeps that link in every later
\* step, whatever invoices are built afterwards.
C6_NoDoubleBilling ==
    [][\A e \in events :
         e.invoiceId # 0 => \E f \in events' : f.id = e.id /\ f.invoiceId = e.invoiceId]_vars

\* two invoices of one tenant over overlapping periods were committed, and an
\* event of the second one's period stays linked to the first
C6_Witness ==
    \E i, j \in invoices :
      /\ i.id < j.id /\ i.tenant = j.tenant
      /\ \E e \in events :
           /\ e.invoiceId = i.id /\ e.tenant = j.tenant
           /\ e.ts >= j.periodStart /\ e.ts <= j.periodEnd

\* C7: a body with an event the schema rejects, or with a group the quota check
\* refuses, persists none of its events and is answered with the rejection; a
\* rejected request has persisted nothing.
C7_BatchAllOrNothing ==
    \A r \in Reqs :
      LET invalid == \E i \in 1..Len(req[r].evs) : req[r].evs[i].qty <= 0
          refused == \E g \in Groups : req[r].q[g] = "viol"
          mine == {e \in events : e.by = r}
      IN /\ (invalid \/ refused) =>
              /\ mine = {}
              /\ req[r].pc # "persist"
              /\ req[r].pc = "done" => req[r].status = (IF invalid THEN 400 ELSE 403)
         /\ req[r].status \in {400, 403} => mine = {}

\* a batch was rejected for its quota although one of its groups had passed,
\* and another batch of the run was persisted
C7_Witness ==
    \E r, s \in Reqs :
      /\ req[r].batch /\ req[r].status = 403
      /\ \E g \in Groups : req[r].q[g] = "ok"
      /\ req[s].batch /\ req[s].status = 200 /\ \E e \in events : e.by = s

\* C8: a request rejected with QUOTA_EXCEEDED has changed no quota counter.
C8_RejectionReservesNothing ==
    \A r \in Reqs :
      (req[r].status = 403 /\ req[r].code = "QUOTA_EXCEEDED")
        => \A g \in Groups : req[r].reserved[g] = 0


\* C9: with one granularity configured at limit L, a request whose rate check
\* was answered by the cache inside one window bucket is admitted exactly when
\* fewer than L requests were counted before it in that bucket; a rejected one
\* is answered 429 with no remaining allowance and a retryAfter of the whole
\* seconds (rounded up) left until the next window starts, which is 1 for the
\* second window.
C9_RateWindow ==
    Len(ChecksOf(rateLimit)) = 1 =>
      LET w == ChecksOf(rateLimit)[1]
          L == LimitOf(rateLimit, w)
      IN \A r \in Reqs :
           ( /\ req[r].rlEvalAt # NoTime /\ req[r].rl.via = "redis"
             /\ req[r].rlAt \div WindowMs(w) = req[r].rlEvalAt \div WindowMs(w) ) =>
             LET counted == {s \in Reqs : /\ s < r
                                          /\ req[s].rlIncrAt # NoTime
                                          /\ req[s].rlIncrAt \div WindowMs(w)
                                               = req[r].rlAt \div WindowMs(w)}
                 left == (req[r].rlAt \div WindowMs(w) + 1) * WindowMs(w) - req[r].rlAt
             IN /\ req[r].rl.allowed <=> Cardinality(counted) < L
                /\ req[r].rl.allowed => req[r].status # 429
                /\ ~req[r].rl.allowed =>
                     /\ req[r].status = 429 /\ req[r].code = "RATE_LIMIT_EXCEEDED"
                     /\ req[r].rl.remaining = 0 /\ req[r].rl.limit = L
                     /\ req[r].rl.retryAfter * MsPerSecond >= left
                     /\ (req[r].rl.retryAfter - 1) * MsPerSecond < left
                     /\ w = "second" => req[r].rl.retryAfter = 1

\* the per-second limit is exhausted by the first L requests and the next one
\* is rejected in the last millisecond of that second
C9_Witness ==
    /\ ChecksOf(rateLimit) = <<"second">>
    /\ \A r \in 1..RateLimitValue : req[r].rlIncrAt # NoTime
    /\ \E r \in Reqs :
         /\ req[r].status = 429 /\ req[r].rl.retryAfter = 1
         /\ req[r].rlAt = StartOfRun + MsPerSecond - 1
         /\ req[r].rlEvalAt = req[r].rlAt

\* C10: a rate check made while the cache is down or the breaker is open admits
\* the request with unlimited allowance and the request moves on to the next
\* stage; no request is answered 429 in such a step.
C10_RateLimitFailsOpen ==
    [][\A r \in Reqs :
         LET degraded == circuitBreakerOpen \/ ~redisUp
             checked == \/ /\ req[r].pc = "rate" /\ req'[r].pc # "rate"
                           /\ rateLimit.exists /\ circuitBreakerOpen
                        \/ /\ req[r].pc \in {"rate_read", "rate_incr"} /\ req'[r].pc # req[r].pc
                           /\ ~redisUp
         IN /\ checked =>
                 /\ req'[r].pc = "parse" /\ req'[r].status = 0
                 /\ req'[r].rl.via = "fallback" /\ req'[r].rl.allowed
                 /\ req'[r].rl.limit = Infinity /\ req'[r].rl.remaining = Infinity
            /\ (req'[r].status = 429 /\ req[r].status # 429) => ~degraded]_vars

\* the breaker is open and the cache is back: the failed check of one request
\* opened it, and a later request was admitted by the fallback while it was
\* open and went on to the parse stage, where it was answered
C10_Witness ==
    /\ circuitBreakerOpen /\ redisUp
    /\ \E r, s \in Reqs :
         /\ s < r /\ req[s].rl.via = "fallback"
         /\ req[r].rl.via = "fallback" /\ req[r].rl.limit = Infinity
         /\ req[r].pc = "done" /\ req[r].status = 400


\* C11: the quota decision does not depend on the cache: whenever no request is
\* in flight, a new request of any quantity for a group with a QuotaLimit gets
\* the same allowed/rejected answer from the counter of the cache as from the
\* store fallback (the sum of the persisted quantities since resetAt); and no
\* request fails with a server error because of the cache (only an insert the
\* unique index refuses does).
C11_CacheAndStoreAgree ==
    /\ InFlight = {} =>
         \A g \in Groups : quotaLimit[g].exists =>
           \A quantity \in 1..MaxQty :
             EnhancedAllowed(quotaLimit[g], quotaCounter[g], quantity, now)
               <=> FallbackAllowed(g, quotaLimit[g], quantity, now)
    /\ \A r \in Reqs :
         req[r].status = 500 => \E i \in 1..Len(req[r].evs) : Truthy(req[r].evs[i].key)


\* C12: when an invoice is built a second time for the same tenant and period
\* on the same data (the build was started after the first invoice was issued,
\* it read the same snapshot usage, and the first build left no unbilled event
\* in the period), the second build issues a new invoice, and that invoice has
\* no line item.
C12_SecondBuildHasNoLineItems ==
    [][\A b \in Builds :
         ( /\ build[b].pc = "commit" /\ build'[b].pc # "commit"
           /\ ToLink(build[b].tenant, build[b].periodStart, build[b].periodEnd) = {}
           /\ \E i \in invoices :
                /\ i.tenant = build[b].tenant
                /\ i.periodStart = build[b].periodStart /\ i.periodEnd = build[b].periodEnd
                /\ i.number < build[b].number
                /\ i.lines = build[b].lines )
         => \E j \in invoices' \ invoices :
              /\ j.tenant = build[b].tenant
              /\ j.periodStart = build[b].periodStart /\ j.periodEnd = build[b].periodEnd
              /\ \A ty \in EventTypes : j.lines[ty] = 0]_vars


\* C13: the step that issues invoice I links to I, with billedAt set, every
\* event of I's tenant that is dated inside I's period and has no invoice yet;
\* an event is linked to an invoice only in the step that issues that invoice
\* (an event ingested later is never linked to it, not even with a timestamp
\* inside the period), and a linked event's invoice exists.
C13_LinkedInTheIssuingStep ==
    [][/\ \A i \in invoices' \ invoices : \A e \in events :
            ( /\ e.tenant = i.tenant /\ e.invoiceId = 0
              /\ e.ts >= i.periodStart /\ e.ts <= i.periodEnd )
            => \E f \in events' : f.id = e.id /\ f.invoiceId = i.id /\ f.billedAt # NoTime
       /\ \A f \in events' : f.invoiceId # 0 =>
            /\ \E i \in invoices' : i.id = f.invoiceId
            /\ \/ \E e \in events : e.id = f.id /\ e.invoiceId = f.invoiceId
               \/ /\ \E e \in events : e.id = f.id /\ e.invoiceId = 0
                  /\ \E i \in invoices' \ invoices : i.id = f.invoiceId]_vars

\* an invoice was issued and an event was linked to it; an event of the same
\* tenant dated inside the invoice's period, stored after the invoice was
\* issued, carries no invoice
C13_Witness ==
    \E i \in invoices : \E e, f \in events :
      /\ e.invoiceId = i.id /\ e.billedAt # NoTime
      /\ f.tenant = i.tenant /\ f.id > e.id /\ f.invoiceId = 0
      /\ f.ts >= i.periodStart /\ f.ts <= i.periodEnd


\* C14: every stored event has billedAt set exactly when it has an invoiceId.
C14_BilledAtIffInvoiceId ==
    \A e \in events : (e.billedAt # NoTime) <=> (e.invoiceId # 0)

\* the store holds an event an invoice build has linked (both fields set) and
\* an event that was ingested afterwards (both fields null)
C14_Witness ==
    \E e, f \in events :
      /\ e.invoiceId # 0 /\ e.billedAt # NoTime /\ (\E i \in invoices : i.id = e.invoiceId)
      /\ f.invoiceId = 0 /\ f.billedAt = NoTime /\ f.by # e.by


\* C15: no two invoices carry the same number, and an invoice that is issued,
\* by generateInvoice or by bulkGenerateInvoices, carries a number suffix
\* strictly greater than that of every invoice the organization already has.
C15_InvoiceNumbers ==
    [][/\ \A i, j \in invoices' : i.number = j.number => i.id = j.id
       /\ \A j \in invoices' \ invoices : \A i \in invoices : i.number < j.number]_vars

\* generateInvoice issued an invoice and bulkGenerateInvoices, called
\* afterwards, issued the next one, with the greater number
C15_Witness ==
    \E i, j \in invoices : \E b, c \in Builds :
      /\ i.id < j.id /\ i.number < j.number
      /\ build[b].pc = "done" /\ build[b].number = i.number
      /\ build[c].pc = "bulk_done" /\ build[c].number = j.number


RECURSIVE C16_Walk(_, _, _, _)
\* the walk as the statement describes it: each tier consumes
\* max(0, min(Q, maxQ) - max(processed, minQ)), processed advances by what was
\* consumed, and the walk stops when processed >= Q
C16_Walk(tiers, i, Q, acc) ==
    IF i > Len(tiers) \/ acc.processed >= Q THEN acc
    ELSE LET tier == tiers[i]
             consumed == Max(0, MinInf(Q, tier.maxQuantity)
                                  - Max(acc.processed, tier.minQuantity))
         IN C16_Walk(tiers, i + 1, Q,
                     [processed |-> acc.processed + consumed,
                      totalPrice |-> acc.totalPrice + consumed * tier.unitPrice,
                      tierBreakdown |->
                        IF consumed > 0
                        THEN Append(acc.tierBreakdown,
                                    [tierLevel |-> tier.tierLevel, quantity |-> consumed,
                                     unitPrice |-> tier.unitPrice,
                                     subtotal |-> consumed * tier.unitPrice])
                        ELSE acc.tierBreakdown])

C16_TiersOf(ty) == SelectSeq(pricingTiers, LAMBDA tier : tier.eventType = ty)

\* each tier ends where the next one starts, or before
C16_Disjoint(tiers) ==
    \A k \in 1..Len(tiers) - 1 :
      tiers[k].maxQuantity # Infinity /\ tiers[k].maxQuantity <= tiers[k + 1].minQuantity

\* C16 (as stated): for every usage Q > 0 and every list of tiers, the line
\* item's totalPrice is the sum of consumed x unitPrice of the walk, and its
\* breakdown has one entry per tier that consumed something.
C16_TierWalkAsStated ==
    \A i \in invoices : \A ty \in EventTypes :
      i.lines[ty] > 0 =>
        LET w == C16_Walk(C16_TiersOf(ty), 1, i.lines[ty], NoWalk)
        IN /\ i.items[ty].totalPrice = w.totalPrice
           /\ i.items[ty].tierBreakdown = w.tierBreakdown

\* C16 (amended): for every usage Q > 0 and every list of tiers in which each
\* tier ends where the next one starts or before, the line item is that of the
\* walk when some tier consumed something (or there is no tier); when no tier
\* did, the first tier prices the whole quantity: totalPrice is Q x its
\* unitPrice and the breakdown is the single entry of that tier.
C16_TierWalk ==
    \A i \in invoices : \A ty \in EventTypes :
      (i.lines[ty] > 0 /\ C16_Disjoint(C16_TiersOf(ty))) =>
        LET tiers == C16_TiersOf(ty)
            Q == i.lines[ty]
            w == C16_Walk(tiers, 1, Q, NoWalk)
        IN IF Len(w.tierBreakdown) > 0 \/ Len(tiers) = 0
           THEN /\ i.items[ty].totalPrice = w.totalPrice
                /\ i.items[ty].tierBreakdown = w.tierBreakdown
           ELSE /\ i.items[ty].totalPrice = Q * tiers[1].unitPrice
                /\ i.items[ty].tierBreakdown =
                     <<[tierLevel |-> tiers[1].tierLevel, quantity |-> Q,
                        unitPrice |-> tiers[1].unitPrice,
                        subtotal |-> Q * tiers[1].unitPrice]>>

C16_WitnessTiers == <<Tier("api", 1, <<0, 2>>), Tier("api", 2, <<2, Infinity>>)>>

\* under the tiers [0, 2) and [2, inf) a usage of 3 was invoiced: 2 units in
\* the first tier and 1 in the second
C16_Witness ==
    /\ pricingTiers = C16_WitnessTiers
    /\ \E i \in invoices :
         /\ i.lines["api"] = 3
         /\ Len(i.items["api"].tierBreakdown) = 2
         /\ i.items["api"].totalPrice = 2 * TierPrices[1] + 1 * TierPrices[2]


\* C17: a quota check of a group with a QuotaLimit allows the request in mode
\* DISABLED always, in mode HARD exactly when current + quantity <= limitValue
\* or the grace period has not ended, and in mode SOFT exactly when
\* current + quantity <= limitValue + overageAllowed or the grace period has
\* not ended; current is the counter of the cache when the cache answers and
\* the persisted sum since resetAt when it does not (the breaker is open, or
\* the read or the increment fails).
C17_QuotaDecision ==
    [][\A r \in Reqs : \A g \in Groups :
         LET lim == quotaLimit[g]
             quantity == GroupQty(req[r].evs, FreshIdx(req[r].evs, req[r].dup), g)
             grace == lim.gracePeriodEnd # NoTime /\ now < lim.gracePeriodEnd
             Allowed(current) ==
                 CASE lim.mode = "DISABLED" -> TRUE
                   [] lim.mode = "HARD" -> current + quantity <= lim.limitValue \/ grace
                   [] lim.mode = "SOFT" ->
                        current + quantity <= lim.limitValue + lim.overageAllowed \/ grace
             stored == UsageSince(g, lim.resetAt)
         IN (lim.exists /\ req[r].pc = "quota") =>
              /\ (req[r].q[g] = "todo" /\ req'[r].q[g] # "todo") =>
                   IF circuitBreakerOpen \/ ~redisUp
                   THEN req'[r].q[g] = (IF Allowed(stored) THEN "ok" ELSE "viol")
                   ELSE req'[r].q[g] = (IF Allowed(quotaCounter[g]) THEN "incr" ELSE "viol")
              /\ (req[r].q[g] = "incr" /\ req'[r].q[g] # "incr") =>
                   req'[r].q[g] = (IF redisUp \/ Allowed(stored) THEN "ok" ELSE "viol")]_vars

\* under a SOFT limit with an overage and no grace period the usage stands at
\* the limit plus the overage: a request was admitted at current = limit, by
\* the cache, and the next one was refused
C17_Witness ==
    \E g \in Groups :
      /\ quotaLimit[g].mode = "SOFT" /\ quotaLimit[g].overageAllowed > 0
      /\ quotaLimit[g].gracePeriodEnd = NoTime
      /\ UsageSince(g, quotaLimit[g].resetAt) = quotaLimit[g].limitValue + quotaLimit[g].overageAllowed
      /\ quotaCounter[g] = quotaLimit[g].limitValue + quotaLimit[g].overageAllowed
      /\ \E r \in Reqs : req[r].status = 403 /\ req[r].q[g] = "viol"


\* C18: the usage a quota check reads does not depend on the timestamps the
\* events carry: the sum the store fallback computes for a group is the
\* quantity of all the events of the group ingested since resetAt (every
\* ingest of these runs), as it is in the history that differs only in that
\* its events carry no timestamp.
C18_TimestampsDoNotCount ==
    \A g \in Groups :
      quotaLimit[g].exists =>
        UsageSince(g, quotaLimit[g].resetAt)
          = QtySum({e \in events : e.tenant = g[1] /\ e.type = g[2]})


(* snapshot runs: the events of one ingest and one recordEvent call are
   aggregated by the job, run for either day at any moment, while the customer
   is suspended and reactivated and one invoice is built from the rows *)

NextSnap ==
    \/ \E r \in 1..1 : Submit(r, BillPayloads, 1)
    \/ \E r \in 1..1 : \/ RateLookup(r)
                       \/ Parse(r)
                       \/ TenantsFind(r)
                       \/ TenantsUpsert(r)
                       \/ IdemCache(r)
                       \/ \E g \in Groups : QuotaRead(r, g)
                       \/ BeginPersist(r)
                       \/ PersistEvent(r, 1)
    \/ \E t \in Tenants, ts \in {0, MsPerDay} :
         trpcCalls = 0 /\ TrpcRecordEvent(t, "api", 1, ts, TRUE)
    \/ \E d \in {0, MsPerDay} : SnapshotJob(d)
    \/ \E t \in Tenants, s \in {"ACTIVE", "SUSPENDED"} : UpdateStatus(t, s)
    \/ \E b \in 1..1, t \in Tenants : BuildRead(b, t, FirstDay)
    \/ \E b \in 1..1 : BuildCommit(b)

SpecSnap == InitBill /\ [][NextSnap]_vars

\* C19: when the snapshot job has run for a date, a second run for that date
\* on the unchanged events leaves the snapshot rows as the first run left
\* them, and there is one row per (tenantId, date, eventType).
C19_SnapshotJobIdempotent ==
    [][snapshots' # snapshots
         => /\ \A d \in {0, MsPerDay} :
                 snapshots' = Upserted(SnapshotRows(d))
                   => (Upserted(SnapshotRows(d)))' = snapshots'
            /\ \A s, f \in snapshots' : SameSnapshotKey(s, f) => s = f]_vars

\* the job ran for the first day when one event was stored (an invoice was
\* built on that row) and ran again after a second event of that day: its
\* row was updated and is the only one of its key
C19_Witness ==
    /\ \E s \in snapshots : s.date = 0 /\ s.type = "api" /\ s.totalQuantity = 2
    /\ \E i \in invoices : i.lines["api"] = 1
    /\ Cardinality({s \in snapshots : s.date = 0 /\ s.type = "api"}) = 1


(* customer status: the ingest API creates the customers, the snapshot job reads
   their status, and customers.updateStatus is called with each status of its
   input schema *)

Statuses == {"ACTIVE", "SUSPENDED", "DELETED"}

NextStatus ==
    \/ \E r \in 1..1 : Submit(r, BillPayloads, 1)
    \/ \E r \in 1..1 : \/ RateLookup(r)
                       \/ Parse(r)
                       \/ TenantsFind(r)
                       \/ TenantsUpsert(r)
                       \/ IdemCache(r)
                       \/ \E g \in Groups : QuotaRead(r, g)
                       \/ BeginPersist(r)
                       \/ PersistEvent(r, 1)
    \/ \E t \in Tenants, ts \in {0, MsPerDay} :
         TrpcRecordEvent(t, "api", 1, ts, TRUE)
    \/ \E d \in {0, MsPerDay} : SnapshotJob(d)
    \/ \E t \in Tenants, status \in Statuses : UpdateStatus(t, status)

SpecStatus == InitBill /\ [][NextStatus]_vars

\* C20: a customer's status changes only from ACTIVE to SUSPENDED and back, and
\* from either to DELETED; a customer that is DELETED stays DELETED.
C20_DeletedIsTerminal ==
    [][\A t \in Tenants :
         tenantStatus'[t] # tenantStatus[t]
           => \/ tenantStatus[t] = "NONE" /\ tenantStatus'[t] = "ACTIVE"
              \/ tenantStatus[t] \in {"ACTIVE", "SUSPENDED"}
                   /\ tenantStatus'[t] \in {"ACTIVE", "SUSPENDED", "DELETED"}]_vars


\* C21: the breaker goes from closed to open only in a step that brings the
\* failure count to the threshold, with the cache failing, and the count grows
\* only when a cache operation fails; every cache operation that succeeds (an
\* idempotency entry, a quota counter, a rolling counter or a rate-limit bucket
\* is written) leaves the failure count at 0.
C21_BreakerCountsConsecutiveFailures ==
    [][/\ (~circuitBreakerOpen /\ circuitBreakerOpen')
            => circuitBreakerFailures' >= CIRCUIT_BREAKER_THRESHOLD /\ ~redisUp
       /\ circuitBreakerFailures' > circuitBreakerFailures => ~redisUp
       /\ ((\E k \in Keys : idemCache'[k] \notin {0, idemCache[k]})
             \/ quotaCounter' # quotaCounter \/ rolling' # rolling \/ rlCount' # rlCount)
            => circuitBreakerFailures' = 0]_vars


(* batches under a quota: one caller after the other sends an event that
   leaves room for one more unit, or a batch of two events of one unit each,
   of one group or of two, and recordEvent is called with its quota check;
   every group carries a HARD limit and the cache may go down *)

BatchPayloads ==
    { Single(Ev("api", QuotaLimitValue - 1, NoKey)),
      Pair(Ev("api", 1, NoKey), Ev("api", 1, NoKey)),
      Pair(Ev("api", 1, NoKey), Ev("sms", 1, NoKey)) }

InitBatch ==
    /\ InitCommon
    /\ circuitBreakerFailures = 0
    /\ quotaLimit = [g \in Groups |-> HardQuota(QuotaLimitValue)]
    /\ rateLimit = NoRateLimit
    /\ pricingTiers = <<>>

NextBatch ==
    \/ \E r \in 1..2 : Submit(r, BatchPayloads, 1)
    \/ \E r \in 1..2 : \/ RateLookup(r)
                       \/ Parse(r)
                       \/ TenantsFind(r)
                       \/ TenantsUpsert(r)
                       \/ IdemCache(r)
                       \/ \E g \in Groups : QuotaRead(r, g)
                       \/ \E g \in Groups : QuotaIncr(r, g)
                       \/ QuotaReject(r)
                       \/ BeginPersist(r)
                       \/ \E i \in 1..2 : PersistEvent(r, i)
    \/ \E m \in inflightRoll : RollingLands(m)
    \/ \E t \in Tenants, quantity \in 1..MaxQty :
         TrpcRecordEvent(t, "api", quantity, NoTime, FALSE)
    \/ RedisFail

SpecBatch == InitBatch /\ [][NextBatch]_vars

\* the quantity a request without keyed events asks for in group g
C22_Sum(evs, g) ==
    (IF Len(evs) >= 1 /\ GroupOf(evs[1]) = g THEN evs[1].qty ELSE 0)
      + (IF Len(evs) >= 2 /\ GroupOf(evs[2]) = g THEN evs[2].qty ELSE 0)

\* C22: the quota check of a group of a request decides on the usage it reads
\* plus the summed quantity of the request's events of the group, the counter
\* is raised by that sum, a group that was decided is not checked again, and
\* the request goes on to its inserts only if no group was refused.
C22_SummedPerGroup ==
    [][\A r \in Reqs, g \in Groups :
         LET sum == C22_Sum(req[r].evs, g)
             limit == quotaLimit[g].limitValue
             byStore == Verdict(UsageSince(g, quotaLimit[g].resetAt) + sum <= limit)
         IN /\ (req[r].q[g] = "todo" /\ req'[r].q[g] # "todo")
                 => req'[r].q[g] = (IF circuitBreakerOpen \/ ~redisUp THEN byStore
                                    ELSE IF quotaCounter[g] + sum <= limit THEN "incr"
                                    ELSE "viol")
            /\ (req[r].q[g] = "incr" /\ req'[r].q[g] # "incr")
                 => IF redisUp
                    THEN req'[r].q[g] = "ok" /\ quotaCounter'[g] = quotaCounter[g] + sum
                    ELSE req'[r].q[g] = byStore
            /\ req[r].q[g] \in {"ok", "viol"} => req'[r].q[g] = req[r].q[g]
            /\ (req[r].pc = "quota" /\ req'[r].pc \in {"persist", "done"})
                 => (req'[r].status = 403 <=> \E h \in Groups : req[r].q[h] = "viol")]_vars

\* the limit leaves room for one unit, and a batch of two events of one unit
\* each of that group was refused
C22_Witness ==
    \E r \in Reqs, g \in Groups :
      /\ req[r].status = 403 /\ req[r].q[g] = "viol"
      /\ Len(req[r].evs) = 2
      /\ \A i \in 1..2 : GroupOf(req[r].evs[i]) = g
                           /\ quotaCounter[g] + req[r].evs[i].qty <= quotaLimit[g].limitValue
      /\ redisUp /\ quotaCounter[g] = UsageSince(g, 0)


C24_RejectedAdmitKeepsBuckets ==
    [][/\ \A r \in Reqs :
            (req[r].status # 429 /\ req'[r].status = 429)
              => rlCount' = rlCount /\ req'[r].rlIncrAt = NoTime
       /\ rlCount' # rlCount
            => \E r \in Reqs :
                 /\ req[r].pc = "rate_incr" /\ req[r].rl.allowed /\ req'[r].rlIncrAt = now
                 /\ \A i \in 1..Len(ChecksOf(rateLimit)) :
                      LET w == ChecksOf(rateLimit)[i]
                      IN /\ CountAt(w, now)' = CountAt(w, now) + 1
                         /\ req[r].rl.remaining <= LimitOf(rateLimit, w) - 1]_vars

\* the cache refused a request on the hour limit of a policy with all three
\* granularities while the minute bucket of the call was below its limit
C24_Witness ==
    \E r \in Reqs :
      /\ req[r].status = 429 /\ req[r].rl.via = "redis"
      /\ Len(ChecksOf(rateLimit)) = 3
      /\ req[r].rl.limit = rateLimit.perHour
      /\ CountAt("hour", req[r].rlAt) = rateLimit.perHour
      /\ CountAt("minute", req[r].rlAt) < rateLimit.perMinute


(* period rollover: one caller after the other sends an unkeyed event while
   the clock runs and the cache may go down; every group carries a HARD limit
   whose resetAt is moved to the present from outside, later than every
   stored event. The counter key of checkQuota names the calendar month of the
   server clock (part_007, line 48), which does not change during the runs *)

\* the quota_limits row of the group gets resetAt = now
AdvanceResetAt(g) ==
    /\ quotaLimit[g].exists /\ quotaLimit[g].resetAt < now
    /\ \A e \in events : e.ts < now
    /\ quotaLimit' = [quotaLimit EXCEPT ![g].resetAt = now]
    /\ UNCHANGED <<now, cacheVars, redisData, asyncVars, tenantStatus, rateLimit, pricingTiers,
                   storeVars, billVars, req, trpcCalls>>

NextReset ==
    \/ \E r \in 1..2 : Submit(r, QuotaPayloads, 1)
    \/ \E r \in 1..2 : \/ RateLookup(r)
                       \/ Parse(r)
                       \/ TenantsFind(r)
                       \/ TenantsUpsert(r)
                       \/ IdemCache(r)
                       \/ \E g \in Groups : QuotaRead(r, g)
                       \/ \E g \in Groups : QuotaIncr(r, g)
                       \/ QuotaReject(r)
                       \/ BeginPersist(r)
                       \/ PersistEvent(r, 1)
    \/ \E m \in inflightRoll : RollingLands(m)
    \/ \E g \in Groups : AdvanceResetAt(g)
    \/ RedisFail
    \/ Tick

SpecReset == InitBatch /\ [][NextReset]_vars

\* C25: once resetAt of a group was advanced and no event of the new period
\* is stored, a quota check of the group starts from usage 0, by the cache
\* counter and by the store: it admits any quantity within the limit.
C25_NewPeriodStartsAtZero ==
    [][\A r \in Reqs, g \in Groups :
         (/\ req[r].q[g] = "todo" /\ req'[r].q[g] # "todo"
          /\ quotaLimit[g].resetAt > 0
          /\ \A e \in events : GroupOf(e) = g => e.ts < quotaLimit[g].resetAt
          /\ C22_Sum(req[r].evs, g) <= quotaLimit[g].limitValue)
           => req'[r].q[g] # "viol"]_vars


(* soft limits: one caller after the other sends an unkeyed event; the
   groups carry a limit of one of the enforcement modes without a soft limit
   or with a soft limit of 0 or 1, and the cache may go down *)

WarnQuota(mode, softLimitValue) ==
    [HardQuota(QuotaLimitValue) EXCEPT !.mode = mode, !.softLimitValue = softLimitValue]

WarnModes ==
    {WarnQuota(mode, softLimitValue) :
       mode \in {"HARD", "SOFT", "DISABLED"}, softLimitValue \in {NoSoftLimit, 0, 1}}

InitWarn ==
    /\ InitCommon
    /\ circuitBreakerFailures = 0
    /\ quotaLimit \in {[g \in Groups |-> c] : c \in WarnModes}
    /\ rateLimit = NoRateLimit
    /\ pricingTiers = <<>>

NextWarn ==
    \/ \E r \in 1..2 : Submit(r, QuotaPayloads, 1)
    \/ \E r \in 1..2 : \/ RateLookup(r)
                       \/ Parse(r)
                       \/ TenantsFind(r)
                       \/ TenantsUpsert(r)
                       \/ IdemCache(r)
                       \/ \E g \in Groups : QuotaRead(r, g)
                       \/ \E g \in Groups : QuotaIncr(r, g)
                       \/ QuotaReject(r)
                       \/ BeginPersist(r)
                       \/ PersistEvent(r, 1)
    \/ \E m \in inflightRoll : RollingLands(m)
    \/ RedisFail

SpecWarn == InitWarn /\ [][NextWarn]_vars

\* C26: the quota result of a group carries the warning exactly when the
\* limit has a soft limit (0 included), its mode is not DISABLED and the usage
\* the check read plus the quantity asked for is above the soft limit, whether
\* the cache or the store answered and whether or not the check admits.
C26_WarningFlag ==
    [][\A r \in Reqs, g \in Groups :
         LET lim == quotaLimit[g]
             qty == C22_Sum(req[r].evs, g)
             byStore == /\ lim.softLimitValue # NoSoftLimit /\ lim.mode # "DISABLED"
                        /\ UsageSince(g, lim.resetAt) + qty > lim.softLimitValue
             byCache == /\ lim.softLimitValue # NoSoftLimit /\ lim.mode # "DISABLED"
                        /\ quotaCounter[g] + qty > lim.softLimitValue
         IN /\ (req[r].q[g] = "todo" /\ req'[r].q[g] # "todo")
                 => req'[r].warn[g] = (IF circuitBreakerOpen \/ ~redisUp THEN byStore
                                       ELSE byCache)
            /\ (req[r].q[g] = "incr" /\ req'[r].q[g] # "incr")
                 => req'[r].warn[g] = (IF redisUp THEN req[r].warn[g] ELSE byStore)]_vars


(* concurrent Resolve: two requests in flight at once send an event of the
   same tenant, which does not exist before the first of them *)

NextResolve ==
    \/ \E r \in 1..2 : Submit(r, BillPayloads, 2)
    \/ \E r \in 1..2 : \/ RateLookup(r)
                       \/ Parse(r)
                       \/ TenantsFind(r)
                       \/ TenantsUpsert(r)
                       \/ IdemCache(r)
                       \/ \E g \in Groups : QuotaRead(r, g)
                       \/ BeginPersist(r)
                       \/ PersistEvent(r, 1)
    \/ \E m \in inflightRoll : RollingLands(m)

SpecResolve == InitBill /\ [][NextResolve]_vars

\* the request has left findOrCreateTenants
C27_Resolved(rq) ==
    rq.pc \notin {"idle", "rate", "rate_read", "rate_incr", "parse", "tenants", "tenants_upsert"}
      /\ rq.status \notin {400, 429}

C28_CollisionRetries ==
    /\ \A b \in Builds : build[b].pc # "failed"
    /\ \A i, j \in invoices : i.number = j.number => i = j


(* the open breaker: one caller after the other sends a keyed event while
   the cache fails and recovers; the runs start with no failure counted or
   one failure short of the threshold *)

NextOpen ==
    \/ \E r \in 1..2 : Submit(r, KeyedSingles, 1)
    \/ \E r \in 1..2 : \/ RateLookup(r)
                       \/ Parse(r)
                       \/ TenantsFind(r)
                       \/ TenantsUpsert(r)
                       \/ IdemCache(r)
                       \/ IdemDb(r)
                       \/ \E g \in Groups : QuotaRead(r, g)
                       \/ \E g \in Groups : QuotaIncr(r, g)
                       \/ BeginPersist(r)
                       \/ PersistEvent(r, 1)
    \/ \E m \in inflightSets : CacheSetLands(m)
    \/ \E m \in inflightRoll : RollingLands(m)
    \/ RedisFail
    \/ RedisRecover
    \/ BreakerTimerFires

SpecOpen == InitQuota /\ [][NextOpen]_vars

\* C29: while the breaker is open no operation is sent to the cache: no
\* idempotency entry and no rolling-counter update is issued, and no quota
\* counter or rate-limit bucket is written.
C29_OpenBreakerBypassesCache ==
    [][circuitBreakerOpen
         => /\ inflightSets' \subseteq inflightSets
            /\ inflightRoll' \subseteq inflightRoll
            /\ quotaCounter' = quotaCounter
            /\ rlCount' = rlCount]_vars


(* ------------- Authenticate: validateApiKey and hasPermission ----------- *)

\* what a caller presents: whether the Authorization header is there with
\* the Bearer scheme, whether the key starts with usa_, and the api_keys row
\* found under the hash of the key (revokedAt and expiresAt are instants or
\* null)
Credentials ==
    { [bearer |-> FALSE, usa |-> FALSE, row |-> FALSE, revokedAt |-> NoTime,
       expiresAt |-> NoTime, permissions |-> {}],
      [bearer |-> TRUE, usa |-> FALSE, row |-> FALSE, revokedAt |-> NoTime,
       expiresAt |-> NoTime, permissions |-> {}],
      [bearer |-> TRUE, usa |-> TRUE, row |-> FALSE, revokedAt |-> NoTime,
       expiresAt |-> NoTime, permissions |-> {}],
      [bearer |-> TRUE, usa |-> TRUE, row |-> TRUE, revokedAt |-> MsPerDay,
       expiresAt |-> NoTime, permissions |-> {"events:write"}],
      [bearer |-> TRUE, usa |-> TRUE, row |-> TRUE, revokedAt |-> NoTime,
       expiresAt |-> MsPerDay, permissions |-> {"events:write"}],
      [bearer |-> TRUE, usa |-> TRUE, row |-> TRUE, revokedAt |-> NoTime,
       expiresAt |-> 3 * MsPerDay, permissions |-> {"events:write"}],
      [bearer |-> TRUE, usa |-> TRUE, row |-> TRUE, revokedAt |-> NoTime,
       expiresAt |-> NoTime, permissions |-> {"events:read"}],
      [bearer |-> TRUE, usa |-> TRUE, row |-> TRUE, revokedAt |-> NoTime,
       expiresAt |-> NoTime, permissions |-> {"events:read", "events:write"}] }

\* the valid field of the result of validateApiKey at instant t; the update
\* of lastUsedAt that nobody awaits touches the api_keys row alone and is
\* left out
validateApiKey(c, t) ==
    /\ c.usa
    /\ c.row
    /\ c.revokedAt = NoTime
    /\ ~(c.expiresAt # NoTime /\ c.expiresAt < t)

hasPermission(valid, c, permission) == valid /\ permission \in c.permissions

\* POST, lines 256-280: the status the credential is answered with, 0 when
\* the request goes on
AuthStatus(c, t) ==
    IF ~c.bearer THEN 401
    ELSE IF ~validateApiKey(c, t) THEN 401
    ELSE IF ~hasPermission(validateApiKey(c, t), c, "events:write") THEN 403
    ELSE 0

\* a handler that goes on after answering
StageAfterAuthGoingOn(status) == "rate"

\* the returns of lines 259, 269 and 276 end the request
StageAfterAuth(status) == IF status = 0 THEN "rate" ELSE "done"

\* a caller sends payload p with credential c; Submit is the same step for a
\* caller whose key is valid and carries events:write
Post(r, P, C, limit) ==
    /\ req[r].pc = "idle"
    /\ \A s \in Reqs : s < r => req[s].pc # "idle"
    /\ Cardinality(InFlight) < limit
    /\ \E p \in P, c \in C :
         LET status == AuthStatus(c, now)
         IN req' = [req EXCEPT ![r] = [IdleReq EXCEPT !.pc = StageAfterAuth(status),
                                                   !.batch = p.batch, !.evs = p.evs,
                                                   !.status = status]]
    /\ UNCHANGED <<now, cacheVars, redisData, asyncVars, configVars, storeVars, billVars, trpcCalls>>

(* credentials: one caller after the other sends a keyed event with one of
   the credentials; the organization has a quota and a rate-limit policy
   that admits one request an hour *)

InitAuth ==
    /\ InitCommon
    /\ circuitBreakerFailures = 0
    /\ quotaLimit = [g \in Groups |-> HardQuota(QuotaLimitValue)]
    /\ rateLimit = Policy(0, 0, RateLimitValue - 1)
    /\ pricingTiers = <<>>

NextAuth ==
    \/ \E r \in 1..3 : Post(r, KeyedSingles, Credentials, 1)
    \/ \E r \in 1..3 : \/ RateLookup(r)
                       \/ RateRead(r)
                       \/ RateIncr(r)
                       \/ Parse(r)
                       \/ TenantsFind(r)
                       \/ TenantsUpsert(r)
                       \/ IdemCache(r)
                       \/ IdemDb(r)
                       \/ \E g \in Groups : QuotaRead(r, g)
                       \/ \E g \in Groups : QuotaIncr(r, g)
                       \/ BeginPersist(r)
                       \/ PersistEvent(r, 1)
    \/ \E m \in inflightSets : CacheSetLands(m)
    \/ RedisFail

SpecAuth == InitAuth /\ [][NextAuth]_vars

\* C30: a request answered 401, 403 or 429 is over and takes no further
\* step; it is answered so before its body is parsed, and no step a request
\* takes before the parse stage creates a tenant, writes or issues an
\* idempotency entry, changes a quota counter or inserts an event; the step
\* that answers 401 or 403 leaves the rate-limit buckets as they are, and a
\* request never returns to the stages before the parse.
C30_RejectedRequestHasNoEffect ==
    [][\A r \in Reqs :
         LET early == {"idle", "rate", "rate_read", "rate_incr"}
             rejected == {401, 403, 429}
         IN /\ req[r].status \in rejected => req'[r] = req[r]
            /\ (req'[r].status \in rejected /\ req[r].status \notin rejected)
                 => req[r].pc \in early
            /\ (req'[r].status \in {401, 403} /\ req[r].status \notin rejected)
                 => req[r].pc = "idle" /\ rlCount' = rlCount
            /\ (req'[r] # req[r] /\ req[r].pc \in early)
                 => /\ tenantStatus' = tenantStatus
                    /\ idemCache' = idemCache /\ inflightSets' = inflightSets
                    /\ quotaCounter' = quotaCounter
                    /\ events' = events
            /\ req[r].pc \notin early => req'[r].pc \notin early]_vars

\* one request was admitted and its event is stored with its tenant, one
\* was refused for its permissions and one by the rate limiter
C30_Witness ==
    /\ events # {}
    /\ \E t \in Tenants : tenantStatus[t] # "NONE"
    /\ \E r \in Reqs : req[r].status = 403
    /\ \E r \in Reqs : req[r].status = 429


\* C31: once no request is under way and no rolling-counter update is
\* pending, the rolling counter of every (tenant, eventType) holds the summed
\* quantity of the events stored for it: no committed event is left out for
\* good, whatever the cache and the breaker did while it was ingested.
C31_RollingReflectsCommitted ==
    (InFlight = {} /\ inflightRoll = {})
        => \A g \in Groups : rolling[g] = UsageSince(g, 0)


\* C32: the open breaker closes only in a step in which a reset timer fires:
\* a cache operation that completes does not close it.
C32_OnlyTheTimerCloses ==
    [][(circuitBreakerOpen /\ ~circuitBreakerOpen') => breakerTimers' < breakerTimers]_vars


(* concurrent admission: two callers at a time are checked against the
   rate-limit policy; the cache stays up and the clock stands still, so every
   request falls into the same bucket of every granularity *)

NextRace ==
    \/ \E r \in Reqs : Submit(r, RatePayloads, MaxInFlight)
    \/ \E r \in Reqs : RateLookup(r)
    \/ \E r \in Reqs : RateRead(r)
    \/ \E r \in Reqs : RateIncr(r)
    \/ \E r \in Reqs : Parse(r)

SpecRace == InitRate /\ [][NextRace]_vars

\* C33: for every configured granularity, the requests the rate limiter has
\* admitted in the bucket are not more than the limit of that granularity.
C33_AdmittedWithinLimit ==
    \A i \in 1..Len(ChecksOf(rateLimit)) :
      LET w == ChecksOf(rateLimit)[i]
          admitted == {r \in Reqs : /\ req[r].rl.via = "redis" /\ req[r].rl.allowed
                                    /\ BucketOf(w, req[r].rlAt) = BucketOf(w, now)}
      IN Cardinality(admitted) <= LimitOf(rateLimit, w)


\* C34: with the cache up all along, no ingestion but through POST and no
\* request under way, the quota counter of every (tenant, eventType) that has
\* a quota row equals the summed quantity of the events stored for the pair
\* in the period.
C34_CounterMatchesPersisted ==
    (flips = 0 /\ ~circuitBreakerOpen /\ trpcCalls = 0 /\ InFlight = {})
        => \A g \in Groups :
             quotaLimit[g].exists => quotaCounter[g] = UsageSince(g, quotaLimit[g].resetAt)


\* C35: a request that was answered with an error status has none of its
\* events in the store.
C35_ErrorPersistsNothing ==
    \A r \in Reqs :
      (req[r].pc = "done" /\ req[r].status >= 400) => {e \in events : e.by = r} = {}


(* one request at a time with store and cache healthy: the bodies of the
   concurrent runs, and an event whose idempotency_key is the empty string *)

EdgePayloads == IngestPayloads \cup {Single(Ev("api", 1, ""))}

NextOne ==
    \/ \E r \in Reqs : Submit(r, EdgePayloads, 1)
    \/ \E r \in Reqs : IngestStep(r)
    \/ \E m \in inflightSets : CacheSetLands(m)
    \/ \E m \in inflightRoll : RollingLands(m)

SpecOne == Init /\ [][NextOne]_vars

\* C36: a completed request whose body passes the schema and that was not
\* refused by the rate limiter or a quota is answered 200 with one result
\* for each event of the body.
C36_ValidRequestsAnswer200 ==
    \A r \in Reqs :
      ( /\ req[r].pc = "done"
        /\ SchemaValid(req[r].batch, req[r].evs)
        /\ req[r].status # 429
        /\ req[r].code # "QUOTA_EXCEEDED" )
      => /\ req[r].status = 200
         /\ Len(req[r].res) = Len(req[r].evs)
         /\ \A i \in 1..Len(req[r].evs) : req[r].res[i] # NoResult


\* C37: every idempotency entry of the cache names a stored event, that
\* event carries the organization and the key of the entry, and no other
\* stored event does: the store lookup of the key finds the same event.
C37_CacheEntriesNameStoredEvents ==
    \A k \in Keys :
      idemCache[k] # 0 =>
        /\ \E e \in events : e.id = idemCache[k]
        /\ \A e \in events : (e.org = Org /\ e.key = k) <=> e.id = idemCache[k]

\* an entry is in the cache, a request was answered from it as a duplicate
\* and the store also holds an event without the key
C37_Witness ==
    /\ \E k \in Keys : idemCache[k] # 0
    /\ \E e \in events : e.key = NoKey
    /\ \E r \in Reqs : /\ req[r].pc = "done" /\ req[r].status = 200
                       /\ \E i \in 1..Len(req[r].res) : req[r].res[i].deduplicated


\* C38: bulkGenerateInvoices prepares for a tenant and a period the line
\* items generateInvoice prepares on the same snapshots, and the step in
\* which it issues the invoice links to it the events of the tenant in the
\* period that have no invoice yet, as the commit of generateInvoice does.
C38_BulkBuildsLikeGenerate ==
    [][\A b \in Builds :
         /\ (build[b].pc = "idle" /\ build'[b].pc = "bulk_create") =>
              LET usage == UsageFromSnapshots(build'[b].tenant, build'[b].periodStart,
                                              build'[b].periodEnd)
              IN /\ build'[b].lines = usage
                 /\ build'[b].items = [ty \in EventTypes |-> LineItem(ty, usage[ty])]
         /\ (build[b].pc = "bulk_create" /\ build'[b].pc = "bulk_done") =>
              \A j \in invoices' \ invoices :
                {e.id : e \in {f \in events' : f.invoiceId = j.id}}
                  = {e.id : e \in ToLink(j.tenant, j.periodStart, j.periodEnd)}]_vars

=============================================================================
